---- MODULE Spec2Model ----
(***************************************************************************)
(* A model of the interpreter machinery of docs/autodidax2_part1.ipynb:    *)
(* the global current_interpreter, the set_interpreter context manager,    *)
(* the three interpreters (EvalInterpreter, JVPInterpreter,                *)
(* StagingInterpreter), jvp / derivative / nth_order_derivative,           *)
(* build_jaxpr and eval_jaxpr.                                             *)
(*                                                                         *)
(* A task executes a sequence of notebook cells.  Each cell is an          *)
(* expression of the user language (add, mul, literals, variables, jvp,    *)
(* derivative, build_jaxpr, eval_jaxpr, raise); it is run by a small-step  *)
(* machine whose stack holds the Python frames that are live, including    *)
(* the suspended set_interpreter generators.  Python floats are modelled   *)
(* by integers (all the arithmetic of the model is exact in both).         *)
(*                                                                         *)
(* A second part models the flattener of nested structures whose           *)
(* descriptor is declared in jaxlib/pytree.proto: flatten a structure      *)
(* into its leaves and a descriptor, and rebuild it with unflatten.        *)
(***************************************************************************)
EXTENDS Integers, Sequences, FiniteSets, TLC

VARIABLES
  current_interpreter,  \* the module global: id of the current interpreter
  interps,              \* the interpreter objects, indexed by id
  program,              \* per task: the cells it runs
  cell,                 \* per task: index of the cell being run
  ctl,                  \* per task: what the machine is doing
  stack,                \* per task: the live frames, innermost first
  results,              \* per task: the outcome of each finished cell
  pytree                \* the nested structure being flattened and rebuilt

vars == <<current_interpreter, interps, program, cell, ctl, stack, results, pytree>>

-----------------------------------------------------------------------------
(* Bounds *)

MaxOps == 2         \* primitive calls in an enumerated user function
MaxRaiseOps == 1    \* primitive calls in an enumerated raising function
MaxOrder == 4       \* highest order passed to nth_order_derivative
MaxPrimal == 2      \* primal inputs range over 0..MaxPrimal
MaxTangent == 1     \* tangent inputs range over 0..MaxTangent

Tasks == {1, 2}
Ops == {"add", "mul"}

-----------------------------------------------------------------------------
(* Values *)

Float(n) == [k |-> "float", v |-> n]
Var(s) == [k |-> "var", name |-> s]
TaggedDualNumber(i, p, t) ==
  [k |-> "dual", interpreter |-> i, primal |-> p, tangent |-> t]
Tuple2(a, b) == [k |-> "tuple", fst |-> a, snd |-> b]
Equation(v, op, args) == [var |-> v, op |-> op, args |-> args]
Jaxpr(ps, eqns, r) ==
  [k |-> "jaxpr", parameters |-> ps, equations |-> eqns, return_val |-> r]
None == [k |-> "none"]

isFloat(x) == x.k = "float"
isVar(x) == x.k = "var"

\* no structure is being flattened
NoPyTree == [phase |-> "absent"]

(* The interpreter objects *)
EvalInterpreter == [kind |-> "eval"]
JVPInterpreter(prev) == [kind |-> "jvp", prev_interpreter |-> prev]
StagingInterpreter == [kind |-> "staging", equations |-> <<>>, name_counter |-> 0]

-----------------------------------------------------------------------------
(* The user language *)

Lit(c) == [e |-> "lit", c |-> c]
Ref(n) == [e |-> "ref", name |-> n]
Prim(op, a, b) == [e |-> "prim", op |-> op, a |-> a, b |-> b]
Add(a, b) == Prim("add", a, b)
Mul(a, b) == Prim("mul", a, b)
Let(n, d, b) == [e |-> "let", name |-> n, def |-> d, body |-> b]
Raise == [e |-> "raise"]
\* jvp(lambda param: body, primal, tangent); primal and tangent are atoms
Jvp(param, body, p, t) ==
  [e |-> "jvp", param |-> param, body |-> body, primal |-> p, tangent |-> t]
\* derivative(lambda param: body, x); x is an atom
Derivative(param, body, x) ==
  [e |-> "derivative", param |-> param, body |-> body, x |-> x]
\* build_jaxpr(lambda *params: body, Len(params))
BuildJaxpr(params, body) == [e |-> "build_jaxpr", params |-> params, body |-> body]
\* eval_jaxpr(jaxpr, args); jaxpr is an expression, args are atoms
EvalJaxpr(j, args) == [e |-> "eval_jaxpr", jaxpr |-> j, args |-> args]

\* Jaxpr(parameters, equations, return_val) written out by the caller
JaxprOf(ps, eqns, r) ==
  [e |-> "jaxpr", parameters |-> ps, equations |-> eqns, return_val |-> r]

isAtom(x) == x.e \in {"lit", "ref"}

\* def foo(x): return mul(x, add(x, 3.0))
foo == Mul(Ref("x"), Add(Ref("x"), Lit(3)))

\* def f(x): def g(y): return x; should_be_zero = derivative(g, 0.0);
\*           return mul(x, should_be_zero)
f_confusion ==
  Let("should_be_zero", Derivative("y", Ref("x"), Lit(0)),
      Mul(Ref("x"), Ref("should_be_zero")))

\* nth_order_derivative(n, f, x), unfolded: f(x) for n = 0, else
\* derivative(lambda x: nth_order_derivative(n-1, f, x), x)
RECURSIVE nth_order_derivative(_, _, _)
nth_order_derivative(n, f, x) ==
  IF n = 0 THEN Let("x", x, f)
  ELSE Derivative("x", nth_order_derivative(n - 1, f, Ref("x")), x)

-----------------------------------------------------------------------------
(* Pure helpers of the source *)

\* JVPInterpreter.dual_number
dual_number(self, primal, tangent) == TaggedDualNumber(self, primal, tangent)

\* lift that wraps whatever it is given
lift_alwaysWraps(self, x) == dual_number(self, x, Float(0))

\* lift without the `x.interpreter is self` check
lift_anyDualIsOwn(self, x) ==
  IF x.k = "dual"
  THEN x
  ELSE dual_number(self, x, Float(0))

\* JVPInterpreter.lift
lift(self, x) ==
  IF x.k = "dual" /\ x.interpreter = self
  THEN x
  ELSE dual_number(self, x, Float(0))

\* fresh_var that forgets to advance the counter
fresh_var_noIncrement(S) ==
  [interp |-> S, name |-> "v_" \o ToString(S.name_counter + 1)]

\* StagingInterpreter.fresh_var: the updated interpreter and the name issued
fresh_var(S) ==
  [interp |-> [S EXCEPT !.name_counter = @ + 1],
   name |-> "v_" \o ToString(S.name_counter + 1)]

\* tuple(interpreter.fresh_var() for _ in range(num_args))
RECURSIVE fresh_vars(_, _)
fresh_vars(S, num_args) ==
  IF num_args = 0 THEN [interp |-> S, names |-> <<>>]
  ELSE LET r == fresh_vars(S, num_args - 1)
           fv == fresh_var(r.interp)
       IN [interp |-> fv.interp, names |-> Append(r.names, Var(fv.name))]

\* Control states
EvalCtl(e, env) == [m |-> "eval", expr |-> e, env |-> env]
CallCtl(op, args) == [m |-> "call", op |-> op, args |-> args]
RetCtl(v) == [m |-> "ret", val |-> v]
ExcCtl(err) == [m |-> "exc", err |-> err]
IdleCtl == [m |-> "idle"]

Bind(env, n, v) == (n :> v) @@ env

\* Evaluation of a literal or of a variable reference of the user function
AtomResult(x, env) ==
  IF x.e = "lit" THEN RetCtl(Float(x.c))
  ELSE IF x.name \in DOMAIN env THEN RetCtl(env[x.name])
  ELSE ExcCtl("NameError")

\* interpret_op asserting any(...) instead of all(...): with one float and
\* one other argument Python's own + or * raises TypeError
EvalInterpreter_interpret_op_assertAny(op, args) ==
  IF ~ \E i \in DOMAIN args : isFloat(args[i]) THEN ExcCtl("AssertionError")
  ELSE IF ~ \A i \in DOMAIN args : isFloat(args[i]) THEN ExcCtl("TypeError")
  ELSE IF op = "add" THEN RetCtl(Float(args[1].v + args[2].v))
  ELSE IF op = "mul" THEN RetCtl(Float(args[1].v * args[2].v))
  ELSE ExcCtl("ValueError")

\* interpret_op whose case Op.mul returns x + y
EvalInterpreter_interpret_op_mulAdds(op, args) ==
  IF ~ \A i \in DOMAIN args : isFloat(args[i]) THEN ExcCtl("AssertionError")
  ELSE IF op = "add" THEN RetCtl(Float(args[1].v + args[2].v))
  ELSE IF op = "mul" THEN RetCtl(Float(args[1].v + args[2].v))
  ELSE ExcCtl("ValueError")

\* EvalInterpreter.interpret_op
EvalInterpreter_interpret_op(op, args) ==
  IF ~ \A i \in DOMAIN args : isFloat(args[i]) THEN ExcCtl("AssertionError")
  ELSE IF op = "add" THEN RetCtl(Float(args[1].v + args[2].v))
  ELSE IF op = "mul" THEN RetCtl(Float(args[1].v * args[2].v))
  ELSE ExcCtl("ValueError")

\* interpret_op that inserts the new equation at the front of the list
StagingInterpreter_interpret_op_prepend(S, op, args) ==
  LET fv == fresh_var(S)
  IN [interp |-> [fv.interp EXCEPT !.equations =
                     <<Equation(Var(fv.name), op, args)>> \o @],
      binder |-> Var(fv.name)]

\* StagingInterpreter.interpret_op: the updated interpreter and the binder
StagingInterpreter_interpret_op(S, op, args) ==
  LET fv == fresh_var(S)
  IN [interp |-> [fv.interp EXCEPT !.equations =
                     Append(@, Equation(Var(fv.name), op, args))],
      binder |-> Var(fv.name)]

\* the rule with the last product of the mul tangent taken on the two tangents
JVPRule_mulTangentSlip(self, op, x, y, rs) ==
  IF op = "add" THEN
    CASE Len(rs) = 0 -> CallCtl("add", <<x.primal, y.primal>>)
      [] Len(rs) = 1 -> CallCtl("add", <<x.tangent, y.tangent>>)
      [] OTHER -> RetCtl(dual_number(self, rs[1], rs[2]))
  ELSE IF op = "mul" THEN
    CASE Len(rs) = 0 -> CallCtl("mul", <<lift(self, x).primal, lift(self, y).primal>>)
      [] Len(rs) = 1 -> CallCtl("mul", <<lift(self, x).primal, lift(self, y).tangent>>)
      [] Len(rs) = 2 -> CallCtl("mul", <<lift(self, x).tangent, lift(self, y).tangent>>)
      [] Len(rs) = 3 -> CallCtl("add", <<rs[2], rs[3]>>)
      [] OTHER -> RetCtl(dual_number(self, rs[1], rs[4]))
  ELSE RetCtl(None)

\* a rule for add that computes the tangent before the primal
JVPRule_addTangentFirst(self, op, x, y, rs) ==
  IF op = "add" THEN
    CASE Len(rs) = 0 -> CallCtl("add", <<x.tangent, y.tangent>>)
      [] Len(rs) = 1 -> CallCtl("add", <<x.primal, y.primal>>)
      [] OTHER -> RetCtl(dual_number(self, rs[2], rs[1]))
  ELSE IF op = "mul" THEN
    CASE Len(rs) = 0 -> CallCtl("mul", <<lift(self, x).primal, lift(self, y).primal>>)
      [] Len(rs) = 1 -> CallCtl("mul", <<lift(self, x).primal, lift(self, y).tangent>>)
      [] Len(rs) = 2 -> CallCtl("mul", <<lift(self, x).tangent, lift(self, y).primal>>)
      [] Len(rs) = 3 -> CallCtl("add", <<rs[2], rs[3]>>)
      [] OTHER -> RetCtl(dual_number(self, rs[1], rs[4]))
  ELSE RetCtl(None)

\* a rule for add whose tangent is add(x.tangent, y.primal)
JVPRule_addTangentSlip(self, op, x, y, rs) ==
  IF op = "add" THEN
    CASE Len(rs) = 0 -> CallCtl("add", <<x.primal, y.primal>>)
      [] Len(rs) = 1 -> CallCtl("add", <<x.tangent, y.primal>>)
      [] OTHER -> RetCtl(dual_number(self, rs[1], rs[2]))
  ELSE IF op = "mul" THEN
    CASE Len(rs) = 0 -> CallCtl("mul", <<lift(self, x).primal, lift(self, y).primal>>)
      [] Len(rs) = 1 -> CallCtl("mul", <<lift(self, x).primal, lift(self, y).tangent>>)
      [] Len(rs) = 2 -> CallCtl("mul", <<lift(self, x).tangent, lift(self, y).primal>>)
      [] Len(rs) = 3 -> CallCtl("add", <<rs[2], rs[3]>>)
      [] OTHER -> RetCtl(dual_number(self, rs[1], rs[4]))
  ELSE RetCtl(None)

\* The body of the `with` of JVPInterpreter.interpret_op, as the sequence of
\* its component calls: given the results already obtained, the next call to
\* the dispatching add/mul, or the value returned.
JVPRule(self, op, x, y, rs) ==
  IF op = "add" THEN
    CASE Len(rs) = 0 -> CallCtl("add", <<x.primal, y.primal>>)
      [] Len(rs) = 1 -> CallCtl("add", <<x.tangent, y.tangent>>)
      [] OTHER -> RetCtl(dual_number(self, rs[1], rs[2]))
  ELSE IF op = "mul" THEN
    CASE Len(rs) = 0 -> CallCtl("mul", <<lift(self, x).primal, lift(self, y).primal>>)
      [] Len(rs) = 1 -> CallCtl("mul", <<lift(self, x).primal, lift(self, y).tangent>>)
      [] Len(rs) = 2 -> CallCtl("mul", <<lift(self, x).tangent, lift(self, y).primal>>)
      [] Len(rs) = 3 -> CallCtl("add", <<rs[2], rs[3]>>)
      [] OTHER -> RetCtl(dual_number(self, rs[1], rs[4]))
  ELSE RetCtl(None)

\* Frames
\* the suspended generator of a `with set_interpreter(new)`: its locals, and
\* the `with` statement it belongs to
SetInterpreterFrame(site, prev, new) ==
  [f |-> "set_interpreter", site |-> site,
   prev_interpreter |-> prev, new_interpreter |-> new]
JVPRuleFrame(self, op, x, y, rs) ==
  [f |-> "jvp_rule", self |-> self, op |-> op, x |-> x, y |-> y, results |-> rs]

Top(t) == Head(stack[t])
Push(t, frames) == [stack EXCEPT ![t] = frames \o @]
Pop(t) == [stack EXCEPT ![t] = Tail(@)]
Goto(t, c) == [ctl EXCEPT ![t] = c]
OnFrame(t, m, f) == ctl[t].m = m /\ stack[t] # <<>> /\ Top(t).f = f
Evaluating(t, e) == ctl[t].m = "eval" /\ ctl[t].expr.e = e

-----------------------------------------------------------------------------
(* The machine: notebook cells *)

StartCell(t) ==
  /\ ctl[t].m = "idle"
  /\ cell[t] <= Len(program[t])
  /\ ctl' = Goto(t, EvalCtl(program[t][cell[t]], <<>>))
  /\ UNCHANGED <<pytree, current_interpreter, interps, program, cell, stack, results>>

\* The cell's value is printed, or its exception reaches the top level
FinishCell(t) ==
  /\ ctl[t].m \in {"ret", "exc"}
  /\ stack[t] = <<>>
  /\ results' = [results EXCEPT ![t] = Append(@, ctl[t])]
  /\ cell' = [cell EXCEPT ![t] = @ + 1]
  /\ ctl' = Goto(t, IdleCtl)
  /\ UNCHANGED <<pytree, current_interpreter, interps, program, stack>>

(* The machine: the user function's own code *)

EvalAtom(t) ==
  /\ ctl[t].m = "eval"
  /\ isAtom(ctl[t].expr)
  /\ ctl' = Goto(t, AtomResult(ctl[t].expr, ctl[t].env))
  /\ UNCHANGED <<pytree, current_interpreter, interps, program, cell, stack, results>>

\* add(a, b) / mul(a, b): Python evaluates a, then b, then calls
EvalPrim(t) ==
  /\ Evaluating(t, "prim")
  /\ LET e == ctl[t].expr IN
       /\ stack' = Push(t, <<[f |-> "arg1", op |-> e.op, b |-> e.b, env |-> ctl[t].env]>>)
       /\ ctl' = Goto(t, EvalCtl(e.a, ctl[t].env))
  /\ UNCHANGED <<pytree, current_interpreter, interps, program, cell, results>>

Arg1Done(t) ==
  /\ OnFrame(t, "ret", "arg1")
  /\ LET fr == Top(t) IN
       /\ stack' = [stack EXCEPT ![t] =
                      <<[f |-> "arg2", op |-> fr.op, x |-> ctl[t].val]>> \o Tail(@)]
       /\ ctl' = Goto(t, EvalCtl(fr.b, fr.env))
  /\ UNCHANGED <<pytree, current_interpreter, interps, program, cell, results>>

\* the call of the user-facing add / mul
Arg2Done(t) ==
  /\ OnFrame(t, "ret", "arg2")
  /\ stack' = Pop(t)
  /\ ctl' = Goto(t, CallCtl(Top(t).op, <<Top(t).x, ctl[t].val>>))
  /\ UNCHANGED <<pytree, current_interpreter, interps, program, cell, results>>

EvalLet(t) ==
  /\ Evaluating(t, "let")
  /\ LET e == ctl[t].expr IN
       /\ stack' = Push(t, <<[f |-> "let", name |-> e.name, body |-> e.body,
                              env |-> ctl[t].env]>>)
       /\ ctl' = Goto(t, EvalCtl(e.def, ctl[t].env))
  /\ UNCHANGED <<pytree, current_interpreter, interps, program, cell, results>>

LetDone(t) ==
  /\ OnFrame(t, "ret", "let")
  /\ stack' = Pop(t)
  /\ ctl' = Goto(t, EvalCtl(Top(t).body, Bind(Top(t).env, Top(t).name, ctl[t].val)))
  /\ UNCHANGED <<pytree, current_interpreter, interps, program, cell, results>>

DoRaise(t) ==
  /\ Evaluating(t, "raise")
  /\ ctl' = Goto(t, ExcCtl("UserError"))
  /\ UNCHANGED <<pytree, current_interpreter, interps, program, cell, stack, results>>

\* An exception leaves a frame that has no handler for it
Unwind(t) ==
  /\ ctl[t].m = "exc"
  /\ stack[t] # <<>>
  /\ Top(t).f # "set_interpreter"
  /\ stack' = Pop(t)
  /\ UNCHANGED <<pytree, current_interpreter, interps, program, cell, ctl, results>>

(* set_interpreter *)

\* set_interpreter without try / finally: no restoration when the body raises
SetInterpreterExit_noFinally(t) ==
  /\ ctl[t].m \in {"ret", "exc"}
  /\ stack[t] # <<>>
  /\ Top(t).f = "set_interpreter"
  /\ current_interpreter' =
       IF ctl[t].m = "ret" THEN Top(t).prev_interpreter ELSE current_interpreter
  /\ stack' = Pop(t)
  /\ UNCHANGED <<pytree, interps, program, cell, ctl, results>>

\* The `finally` of set_interpreter: runs when the body returns or raises
SetInterpreterExit(t) ==
  /\ ctl[t].m \in {"ret", "exc"}
  /\ stack[t] # <<>>
  /\ Top(t).f = "set_interpreter"
  /\ current_interpreter' = Top(t).prev_interpreter
  /\ stack' = Pop(t)
  /\ UNCHANGED <<pytree, interps, program, cell, ctl, results>>

(* Dispatch of add / mul to current_interpreter.interpret_op *)

DispatchEval(t) ==
  /\ ctl[t].m = "call"
  /\ interps[current_interpreter].kind = "eval"
  /\ ctl' = Goto(t, EvalInterpreter_interpret_op(ctl[t].op, ctl[t].args))
  /\ UNCHANGED <<pytree, current_interpreter, interps, program, cell, stack, results>>

\* interpret_op with the equation list and the counter held once for all
\* StagingInterpreters (class attributes): every builder records into the
\* first one
DispatchStaging_sharedList(t) ==
  /\ ctl[t].m = "call"
  /\ interps[current_interpreter].kind = "staging"
  /\ LET shared == CHOOSE i \in DOMAIN interps :
                     /\ interps[i].kind = "staging"
                     /\ \A j \in 1..(i - 1) : interps[j].kind # "staging"
         r == StagingInterpreter_interpret_op(interps[shared], ctl[t].op, ctl[t].args)
     IN
       /\ interps' = [interps EXCEPT ![shared] = r.interp]
       /\ ctl' = Goto(t, RetCtl(r.binder))
  /\ UNCHANGED <<pytree, current_interpreter, program, cell, stack, results>>

DispatchStaging(t) ==
  /\ ctl[t].m = "call"
  /\ interps[current_interpreter].kind = "staging"
  /\ LET r == StagingInterpreter_interpret_op(interps[current_interpreter],
                                              ctl[t].op, ctl[t].args) IN
       /\ interps' = [interps EXCEPT ![current_interpreter] = r.interp]
       /\ ctl' = Goto(t, RetCtl(r.binder))
  /\ UNCHANGED <<pytree, current_interpreter, program, cell, stack, results>>

\* interpret_op running its rule under the EvalInterpreter instead of under
\* self.prev_interpreter
DispatchJVP_underEval(t) ==
  /\ ctl[t].m = "call"
  /\ interps[current_interpreter].kind = "jvp"
  /\ LET self == current_interpreter
         x == lift(self, ctl[t].args[1])
         y == lift(self, ctl[t].args[2])
         scope == SetInterpreterFrame("interpret_op", current_interpreter, 1)
         nxt == JVPRule(self, ctl[t].op, x, y, <<>>)
     IN
       /\ current_interpreter' = 1
       /\ stack' = IF nxt.m = "call"
                   THEN Push(t, <<JVPRuleFrame(self, ctl[t].op, x, y, <<>>), scope>>)
                   ELSE Push(t, <<scope>>)
       /\ ctl' = Goto(t, nxt)
  /\ UNCHANGED <<pytree, interps, program, cell, results>>

\* interpret_op running its rule without leaving self: the component calls
\* of the rule come back to the same JVPInterpreter
DispatchJVP_underSelf(t) ==
  /\ ctl[t].m = "call"
  /\ interps[current_interpreter].kind = "jvp"
  /\ LET self == current_interpreter
         x == lift(self, ctl[t].args[1])
         y == lift(self, ctl[t].args[2])
         scope == SetInterpreterFrame("interpret_op", current_interpreter, self)
         nxt == JVPRule(self, ctl[t].op, x, y, <<>>)
     IN
       /\ current_interpreter' = self
       /\ stack' = IF nxt.m = "call"
                   THEN Push(t, <<JVPRuleFrame(self, ctl[t].op, x, y, <<>>), scope>>)
                   ELSE Push(t, <<scope>>)
       /\ ctl' = Goto(t, nxt)
  /\ UNCHANGED <<pytree, interps, program, cell, results>>

\* JVPInterpreter.interpret_op up to the first component call of its rule
DispatchJVP(t) ==
  /\ ctl[t].m = "call"
  /\ interps[current_interpreter].kind = "jvp"
  /\ LET self == current_interpreter
         x == lift(self, ctl[t].args[1])
         y == lift(self, ctl[t].args[2])
         scope == SetInterpreterFrame("interpret_op", current_interpreter,
                                    interps[self].prev_interpreter)
         nxt == JVPRule(self, ctl[t].op, x, y, <<>>)
     IN
       /\ current_interpreter' = interps[self].prev_interpreter
       /\ stack' = IF nxt.m = "call"
                   THEN Push(t, <<JVPRuleFrame(self, ctl[t].op, x, y, <<>>), scope>>)
                   ELSE Push(t, <<scope>>)
       /\ ctl' = Goto(t, nxt)
  /\ UNCHANGED <<pytree, interps, program, cell, results>>

\* a component call of the rule has returned
JVPRuleStep(t) ==
  /\ OnFrame(t, "ret", "jvp_rule")
  /\ LET fr == Top(t)
         rs == Append(fr.results, ctl[t].val)
         nxt == JVPRule(fr.self, fr.op, fr.x, fr.y, rs)
     IN
       /\ stack' = IF nxt.m = "call"
                   THEN [stack EXCEPT ![t] = <<[fr EXCEPT !.results = rs]>> \o Tail(@)]
                   ELSE Pop(t)
       /\ ctl' = Goto(t, nxt)
  /\ UNCHANGED <<pytree, current_interpreter, interps, program, cell, results>>

(* jvp, derivative *)

\* jvp(f, primal, tangent) up to the call of f
JvpCall(t) ==
  /\ Evaluating(t, "jvp")
  /\ LET e == ctl[t].expr
         p == AtomResult(e.primal, ctl[t].env)
         tn == AtomResult(e.tangent, ctl[t].env)
         jvp_interpreter == Len(interps) + 1
     IN
       IF p.m = "exc" \/ tn.m = "exc"
       THEN /\ ctl' = Goto(t, ExcCtl("NameError"))
            /\ UNCHANGED <<pytree, current_interpreter, interps, stack>>
       ELSE LET dual_number_in == dual_number(jvp_interpreter, p.val, tn.val) IN
            /\ interps' = Append(interps, JVPInterpreter(current_interpreter))
            /\ stack' = Push(t, <<SetInterpreterFrame("jvp", current_interpreter, jvp_interpreter),
                                  [f |-> "jvp", jvp_interpreter |-> jvp_interpreter]>>)
            /\ current_interpreter' = jvp_interpreter
            /\ ctl' = Goto(t, EvalCtl(e.body, Bind(ctl[t].env, e.param, dual_number_in)))
  /\ UNCHANGED <<pytree, program, cell, results>>

\* jvp after the `with`: lift the result and return its components
JvpReturn(t) ==
  /\ OnFrame(t, "ret", "jvp")
  /\ LET dual_number_out == lift(Top(t).jvp_interpreter, ctl[t].val) IN
       ctl' = Goto(t, RetCtl(Tuple2(dual_number_out.primal, dual_number_out.tangent)))
  /\ stack' = Pop(t)
  /\ UNCHANGED <<pytree, current_interpreter, interps, program, cell, results>>

\* derivative(f, x): _, tangent = jvp(f, x, 1.0)
DerivativeCall(t) ==
  /\ Evaluating(t, "derivative")
  /\ LET e == ctl[t].expr IN
       ctl' = Goto(t, EvalCtl(Jvp(e.param, e.body, e.x, Lit(1)), ctl[t].env))
  /\ stack' = Push(t, <<[f |-> "derivative"]>>)
  /\ UNCHANGED <<pytree, current_interpreter, interps, program, cell, results>>

DerivativeReturn(t) ==
  /\ OnFrame(t, "ret", "derivative")
  /\ ctl' = Goto(t, RetCtl(ctl[t].val.snd))
  /\ stack' = Pop(t)
  /\ UNCHANGED <<pytree, current_interpreter, interps, program, cell, results>>

(* build_jaxpr *)

RECURSIVE BindAll(_, _, _)
BindAll(env, names, vals) ==
  IF names = <<>> \/ vals = <<>> THEN env
  ELSE BindAll(Bind(env, Head(names), Head(vals)), Tail(names), Tail(vals))

\* build_jaxpr(f, num_args) up to the call of f
BuildJaxprCall(t) ==
  /\ Evaluating(t, "build_jaxpr")
  /\ LET e == ctl[t].expr
         interpreter == Len(interps) + 1
         fv == fresh_vars(StagingInterpreter, Len(e.params))
         parameters == fv.names
     IN
       /\ interps' = Append(interps, fv.interp)
       /\ stack' = Push(t, <<SetInterpreterFrame("build_jaxpr", current_interpreter, interpreter),
                             [f |-> "build_jaxpr", interpreter |-> interpreter,
                              parameters |-> parameters]>>)
       /\ current_interpreter' = interpreter
       /\ ctl' = Goto(t, EvalCtl(e.body, BindAll(ctl[t].env, e.params, parameters)))
  /\ UNCHANGED <<pytree, program, cell, results>>

\* return Jaxpr(parameters, interpreter.equations, result): the Jaxpr holds
\* the interpreter's own list object, named here by the interpreter's id
BuildJaxprReturn(t) ==
  /\ OnFrame(t, "ret", "build_jaxpr")
  /\ ctl' = Goto(t, RetCtl(Jaxpr(Top(t).parameters, Top(t).interpreter, ctl[t].val)))
  /\ stack' = Pop(t)
  /\ UNCHANGED <<pytree, current_interpreter, interps, program, cell, results>>

\* a list of equations that no StagingInterpreter owns
EquationList(eqns) == [kind |-> "list", equations |-> eqns]

\* Jaxpr(parameters, [Equation(...), ...], return_val): the dataclass
\* constructor, called on a new list
JaxprNew(t) ==
  /\ Evaluating(t, "jaxpr")
  /\ LET e == ctl[t].expr IN
       /\ interps' = Append(interps, EquationList(e.equations))
       /\ ctl' = Goto(t, RetCtl(Jaxpr(e.parameters, Len(interps) + 1, e.return_val)))
  /\ UNCHANGED <<pytree, current_interpreter, program, cell, stack, results>>

\* the list object a Jaxpr's equations field refers to
equations_of(jaxpr) == interps[jaxpr.equations].equations

(* eval_jaxpr *)

\* eval_atom as env.get(x, x): an unbound variable evaluates to itself
eval_atom_getDefault(env, x) ==
  IF isVar(x) /\ x.name \in DOMAIN env THEN RetCtl(env[x.name]) ELSE RetCtl(x)

\* eval_atom: env[x] if isinstance(x, Var) else x
eval_atom(env, x) ==
  IF isVar(x)
  THEN IF x.name \in DOMAIN env THEN RetCtl(env[x.name]) ELSE ExcCtl("KeyError")
  ELSE RetCtl(x)

\* the loop of eval_jaxpr from equation i on, up to the next interpret_op
\* call, the return, or the failure of a lookup
EvalJaxprLoop(t, jaxpr, env, i) ==
  IF i > Len(equations_of(jaxpr))
  THEN /\ ctl' = Goto(t, eval_atom(env, jaxpr.return_val))
       /\ stack' = Pop(t)
  ELSE LET eqn == equations_of(jaxpr)[i]
           args == [j \in DOMAIN eqn.args |-> eval_atom(env, eqn.args[j])]
       IN
         IF \E j \in DOMAIN args : args[j].m = "exc"
         THEN /\ ctl' = Goto(t, ExcCtl("KeyError"))
              /\ stack' = Pop(t)
         ELSE /\ ctl' = Goto(t, CallCtl(eqn.op, [j \in DOMAIN args |-> args[j].val]))
              /\ stack' = [stack EXCEPT ![t] =
                             <<[f |-> "eval_jaxpr", jaxpr |-> jaxpr, env |-> env, i |-> i]>>
                             \o Tail(@)]

\* eval_jaxpr(<expression>, args): the jaxpr argument is evaluated first
EvalJaxprCall(t) ==
  /\ Evaluating(t, "eval_jaxpr")
  /\ stack' = Push(t, <<[f |-> "eval_jaxpr_call", args |-> ctl[t].expr.args,
                         env |-> ctl[t].env]>>)
  /\ ctl' = Goto(t, EvalCtl(ctl[t].expr.jaxpr, ctl[t].env))
  /\ UNCHANGED <<pytree, current_interpreter, interps, program, cell, results>>

\* env = dict(zip(jaxpr.parameters, args)), then the loop
EvalJaxprStart(t) ==
  /\ OnFrame(t, "ret", "eval_jaxpr_call")
  /\ LET fr == Top(t)
         jaxpr == ctl[t].val
         args == [j \in DOMAIN fr.args |-> AtomResult(fr.args[j], fr.env)]
     IN
       IF \E j \in DOMAIN args : args[j].m = "exc"
       THEN /\ ctl' = Goto(t, ExcCtl("NameError"))
            /\ stack' = Pop(t)
       ELSE IF jaxpr.k # "jaxpr"
       THEN /\ ctl' = Goto(t, ExcCtl("AttributeError"))
            /\ stack' = Pop(t)
       ELSE LET n == IF Len(args) < Len(jaxpr.parameters)
                     THEN Len(args) ELSE Len(jaxpr.parameters)
                env == [nm \in {jaxpr.parameters[j].name : j \in 1..n} |->
                          LET j == CHOOSE j \in 1..n :
                                     /\ jaxpr.parameters[j].name = nm
                                     /\ \A j2 \in (j+1)..n : jaxpr.parameters[j2].name # nm
                          IN args[j].val]
            IN EvalJaxprLoop(t, jaxpr, env, 1)
  /\ UNCHANGED <<pytree, current_interpreter, interps, program, cell, results>>

\* eval_jaxpr that drops the result of the equation instead of binding it
EvalJaxprResume_noBind(t) ==
  /\ OnFrame(t, "ret", "eval_jaxpr")
  /\ EvalJaxprLoop(t, Top(t).jaxpr, Top(t).env, Top(t).i + 1)
  /\ UNCHANGED <<pytree, current_interpreter, interps, program, cell, results>>

\* eval_jaxpr that uses up the graph: once the last equation is evaluated
\* the equations list is emptied
EvalJaxprResume_consume(t) ==
  /\ OnFrame(t, "ret", "eval_jaxpr")
  /\ LET fr == Top(t)
         eqn == equations_of(fr.jaxpr)[fr.i]
     IN /\ EvalJaxprLoop(t, fr.jaxpr, Bind(fr.env, eqn.var.name, ctl[t].val), fr.i + 1)
        /\ interps' = IF fr.i + 1 > Len(equations_of(fr.jaxpr))
                       THEN [interps EXCEPT ![fr.jaxpr.equations].equations = <<>>]
                       ELSE interps
  /\ UNCHANGED <<pytree, current_interpreter, program, cell, results>>

\* env[eqn.var] = <result of interpret_op>, then the loop goes on
EvalJaxprResume(t) ==
  /\ OnFrame(t, "ret", "eval_jaxpr")
  /\ LET fr == Top(t)
         eqn == equations_of(fr.jaxpr)[fr.i]
     IN EvalJaxprLoop(t, fr.jaxpr, Bind(fr.env, eqn.var.name, ctl[t].val), fr.i + 1)
  /\ UNCHANGED <<pytree, current_interpreter, interps, program, cell, results>>

-----------------------------------------------------------------------------
(* The programs run *)

Primals == 0..MaxPrimal
Tangents == 0..MaxTangent

\* the expressions built from the given leaves with exactly n calls of add / mul
RECURSIVE FnsWithOps(_, _)
FnsWithOps(leaves, n) ==
  IF n = 0 THEN leaves
  ELSE UNION { { Prim(op, a, b) : op \in Ops, a \in FnsWithOps(leaves, i),
                                  b \in FnsWithOps(leaves, n - 1 - i) }
               : i \in 0..(n - 1) }

FnsUpTo(leaves, n) == UNION { FnsWithOps(leaves, i) : i \in 0..n }

\* user functions of one argument x composed of add and mul
Fns == FnsUpTo({Ref("x"), Lit(3)}, MaxOps)

\* user functions of two arguments x, y
Fns2 == FnsUpTo({Ref("x"), Ref("y"), Lit(3)}, 1)

\* jvp(lambda y: y, 0.0, 0.0): a tuple, which no interpreter treats as a number
TupleLeaf == Jvp("y", Ref("y"), Lit(0), Lit(0))

RECURSIVE Mentions(_, _)
Mentions(e, leaf) ==
  \/ e = leaf
  \/ e.e = "prim" /\ (Mentions(e.a, leaf) \/ Mentions(e.b, leaf))

\* user functions that raise, or that hand a non-number to a primitive
FaultyFns ==
  { g \in FnsUpTo({Ref("x"), Lit(3), Raise, TupleLeaf}, MaxRaiseOps) :
      Mentions(g, Raise) \/ Mentions(g, TupleLeaf) }

\* f(p)
Call(f, p) == Let("x", Lit(p), f)

\* the transformation entry points around a function of x, nested
Wrappers(g) ==
  LET J(b) == Derivative("x", b, Ref("x"))
      B(b) == EvalJaxpr(BuildJaxpr(<<"x">>, b), <<Ref("x")>>)
  IN { g, J(g), B(g), J(J(g)), J(B(g)), B(J(g)), B(B(g)) }

CellsPlain ==
  { <<Call(f, p)>> : f \in Fns, p \in Primals }
CellsJvp ==
  { <<Jvp("x", f, Lit(p), Lit(tn))>> : f \in Fns, p \in Primals, tn \in Tangents }
CellsBuild ==
  { <<BuildJaxpr(<<"x">>, f)>> : f \in Fns }
\* eval_jaxpr(build_jaxpr(f, 1), (p,)), then f(p)
RoundTrip(f, p) == <<EvalJaxpr(BuildJaxpr(<<"x">>, f), <<Lit(p)>>), Call(f, p)>>
CellsRoundTrip == { RoundTrip(f, p) : f \in Fns, p \in Primals }
\* eval_jaxpr(build_jaxpr(f, 2), (p, q)), then f(p, q)
RoundTrip2(f, p, q) ==
  <<EvalJaxpr(BuildJaxpr(<<"x", "y">>, f), <<Lit(p), Lit(q)>>),
    Let("x", Lit(p), Let("y", Lit(q), f))>>
CellsRoundTrip2 == { RoundTrip2(f, p, q) : f \in Fns2, p \in Primals, q \in Primals }
\* jvp(lambda x: eval_jaxpr(build_jaxpr(f, 1), (x,)), p, tn), then jvp(f, p, tn);
\* run with the tangent 1.0 of the notebook's example
JvpOfGraph(f, p, tn) ==
  <<Jvp("x", EvalJaxpr(BuildJaxpr(<<"x">>, f), <<Ref("x")>>), Lit(p), Lit(tn)),
    Jvp("x", f, Lit(p), Lit(tn))>>
CellsJvpOfGraph == { JvpOfGraph(f, p, 1) : f \in Fns, p \in Primals }
CellsNth ==
  { <<nth_order_derivative(n, foo, Lit(2))>> : n \in 0..MaxOrder }
CellsConfusion ==
  { <<Derivative("x", f_confusion, Lit(p))>> : p \in Primals }
\* a failing transformation, then an unrelated call in the next cell
CellsFaulty ==
  { <<Call(w, p), Call(foo, 2)>> : w \in UNION { Wrappers(g) : g \in FaultyFns },
                                    p \in {2} }

\* jvp(lambda x: build_jaxpr(lambda y: add(x, y), 1), p, 1.0): the traced
\* function closes over a value of the enclosing transformation
Capture(p) ==
  <<Jvp("x", BuildJaxpr(<<"y">>, Add(Ref("x"), Ref("y"))), Lit(p), Lit(1))>>
CellsCapture == { Capture(p) : p \in Primals }

\* jaxpr = build_jaxpr(f, 1), then eval_jaxpr(jaxpr, (x,)) twice, the two
\* results handed to add
Twice(f, x) ==
  Let("j", BuildJaxpr(<<"x">>, f),
      Add(EvalJaxpr(Ref("j"), <<x>>), EvalJaxpr(Ref("j"), <<x>>)))
CellsTwice ==
  { <<Twice(f, Lit(MaxPrimal))>> : f \in Fns }
  \cup { <<Jvp("x", Twice(foo, Ref("x")), Lit(p), Lit(1))>> : p \in Primals }

\* graphs written out by hand: one equation over the parameter v_1, a second
\* parameter-free atom, and a return value, each variable drawn from names
\* that the graph may or may not bind
GraphNames == {"v_1", "v_2", "v_3"}
HandGraphs ==
  { JaxprOf(<<Var("v_1")>>, <<Equation(Var("v_2"), op, <<Var(a), Float(3)>>)>>, Var(r))
      : op \in Ops, a \in GraphNames, r \in GraphNames }
  \cup { JaxprOf(<<Var("v_1")>>, <<>>, Var(r)) : r \in GraphNames }
\* a graph whose equation names an operation that is neither Op.add nor Op.mul
UnknownOpGraph ==
  JaxprOf(<<Var("v_1")>>, <<Equation(Var("v_2"), "sub", <<Var("v_1"), Float(3)>>)>>,
          Var("v_2"))

\* eval_jaxpr of a hand-written graph, directly, and under derivative with
\* an unrelated call in the next cell
CellsHandGraph ==
  { <<EvalJaxpr(g, <<Lit(p)>>)>> : g \in HandGraphs, p \in Primals }
  \cup { <<Derivative("x", EvalJaxpr(g, <<Ref("x")>>), Lit(p)), Call(foo, 2)>>
          : g \in HandGraphs, p \in Primals }
\* eval_jaxpr(build_jaxpr(f, 1), ()): fewer inputs than parameters
CellsTooFewArgs ==
  { <<EvalJaxpr(BuildJaxpr(<<"x">>, f), <<>>)>> : f \in Fns }
\* the unknown operation under each kind of interpreter
CellsUnknownOp ==
  { <<EvalJaxpr(UnknownOpGraph, <<Lit(p)>>)>> : p \in Primals }
  \cup { <<Jvp("x", EvalJaxpr(UnknownOpGraph, <<Ref("x")>>), Lit(p), Lit(1))>>
          : p \in Primals }
  \cup { <<BuildJaxpr(<<"x">>, EvalJaxpr(UnknownOpGraph, <<Ref("x")>>))>> }

\* the functions of x with at most one call, and foo
SmallFns == FnsUpTo({Ref("x"), Lit(3)}, 1) \cup {foo}

\* build_jaxpr(lambda x: add(mul(x, 3.0), eval_jaxpr(build_jaxpr(f, 1), (x,))), 1):
\* a build_jaxpr call nested inside another
Nested(f) ==
  BuildJaxpr(<<"x">>,
    Add(Mul(Ref("x"), Lit(3)), EvalJaxpr(BuildJaxpr(<<"x">>, f), <<Ref("x")>>)))
CellsNested == { <<Nested(f)>> : f \in SmallFns }

\* build_jaxpr(lambda x: jvp(f, x, 1.0), 1): jvp inside a traced function
StagedJvp(f) == BuildJaxpr(<<"x">>, Jvp("x", f, Ref("x"), Lit(1)))
CellsStagedJvp == { <<StagedJvp(f)>> : f \in SmallFns }

\* g = build_jaxpr(f, 1); build_jaxpr(lambda x: eval_jaxpr(g, (x,)), 1), then
\* build_jaxpr(f, 1) once more, to compare with
Restage(f) ==
  <<Let("g", BuildJaxpr(<<"x">>, f),
        BuildJaxpr(<<"x">>, EvalJaxpr(Ref("g"), <<Ref("x")>>))),
    BuildJaxpr(<<"x">>, f)>>
\* the same with two parameters
Restage2(f) ==
  <<Let("g", BuildJaxpr(<<"x", "y">>, f),
        BuildJaxpr(<<"x", "y">>, EvalJaxpr(Ref("g"), <<Ref("x"), Ref("y")>>))),
    BuildJaxpr(<<"x", "y">>, f)>>
CellsRestage ==
  { Restage(f) : f \in SmallFns } \cup { Restage2(f) : f \in Fns2 }

Programs ==
  CellsNested \cup CellsStagedJvp \cup CellsRestage \cup CellsPlain \cup CellsJvp \cup CellsBuild \cup CellsRoundTrip \cup CellsRoundTrip2
  \cup CellsJvpOfGraph \cup CellsNth \cup CellsConfusion \cup CellsFaulty
  \cup CellsCapture \cup CellsTwice \cup CellsHandGraph \cup CellsTooFewArgs
  \cup CellsUnknownOp

-----------------------------------------------------------------------------
(* Specification *)

Init ==
  /\ current_interpreter = 1
  /\ interps = <<EvalInterpreter>>
  /\ \E prog \in Programs : program = [t \in Tasks |-> IF t = 1 THEN prog ELSE <<>>]
  /\ cell = [t \in Tasks |-> 1]
  /\ ctl = [t \in Tasks |-> IdleCtl]
  /\ stack = [t \in Tasks |-> <<>>]
  /\ results = [t \in Tasks |-> <<>>]
  /\ pytree = NoPyTree

Next ==
  \E t \in Tasks :
    \/ StartCell(t)
    \/ FinishCell(t)
    \/ EvalAtom(t)
    \/ EvalPrim(t)
    \/ Arg1Done(t)
    \/ Arg2Done(t)
    \/ EvalLet(t)
    \/ LetDone(t)
    \/ DoRaise(t)
    \/ Unwind(t)
    \/ SetInterpreterExit(t)
    \/ DispatchEval(t)
    \/ DispatchStaging(t)
    \/ DispatchJVP(t)
    \/ JVPRuleStep(t)
    \/ JvpCall(t)
    \/ JvpReturn(t)
    \/ DerivativeCall(t)
    \/ DerivativeReturn(t)
    \/ BuildJaxprCall(t)
    \/ BuildJaxprReturn(t)
    \/ EvalJaxprCall(t)
    \/ EvalJaxprStart(t)
    \/ EvalJaxprResume(t)
    \/ JaxprNew(t)

Spec == Init /\ [][Next]_vars

-----------------------------------------------------------------------------
(* Reference definitions used by the properties *)

\* the first cell of task 1 and its outcome, once it has finished
Cell1 == program[1][1]
Finished(n) == Len(results[1]) >= n
Returned(n, v) == Finished(n) /\ results[1][n] = RetCtl(v)

\* DualNumber, add_dual, mul_dual of the forward-mode aside
DualNumber(primal, tangent) == [primal |-> primal, tangent |-> tangent]
add_dual(x, y) == DualNumber(x.primal + y.primal, x.tangent + y.tangent)
mul_dual(x, y) ==
  DualNumber(x.primal * y.primal, x.primal * y.tangent + x.tangent * y.primal)

\* f rewritten with the _dual rules, as foo_dual rewrites foo: the argument
\* is the dual number x, a literal c enters as DualNumber(c, 0.0)
RECURSIVE f_dual(_, _)
f_dual(f, x) ==
  IF f.e = "ref" THEN x
  ELSE IF f.e = "lit" THEN DualNumber(f.c, 0)
  ELSE IF f.op = "add" THEN add_dual(f_dual(f.a, x), f_dual(f.b, x))
  ELSE mul_dual(f_dual(f.a, x), f_dual(f.b, x))

PairOf(d) == Tuple2(Float(d.primal), Float(d.tangent))

\* f is composed of add and mul over variables and literals
RECURSIVE Pure(_)
Pure(f) ==
  IF f.e = "prim" THEN Pure(f.a) /\ Pure(f.b) ELSE isAtom(f)

-----------------------------------------------------------------------------
(* Properties *)

\* C6: for every f composed of add and mul and every primal p and tangent t,
\* jvp(f, p, t) called with the EvalInterpreter current returns the pair that
\* the plain dual-number rules add_dual / mul_dual give on DualNumber(p, t),
\* constants entering with tangent 0; jvp(foo, 2.0, 1.0) == (10.0, 7.0).
C6_JvpMatchesDualRules ==
  /\ (Finished(1) /\ Len(program[1]) = 1 /\ Cell1.e = "jvp" /\ Pure(Cell1.body))
       => results[1][1] =
            RetCtl(PairOf(f_dual(Cell1.body, DualNumber(Cell1.primal.c, Cell1.tangent.c))))
  /\ (Cell1 = Jvp("x", foo, Lit(2), Lit(1)) /\ Finished(1))
       => results[1][1] = RetCtl(Tuple2(Float(10), Float(7)))

C6_Witness ==
  /\ Cell1 = Jvp("x", foo, Lit(2), Lit(1))
  /\ Returned(1, Tuple2(Float(10), Float(7)))

\* C7: nth_order_derivative(n, foo, 2.0) returns 10.0, 7.0, 2.0, 0.0, 0.0 for
\* n = 0, 1, 2, 3, 4.
NthExpected == <<10, 7, 2, 0, 0>>
C7_NthOrderDerivative ==
  \A n \in 0..4 :
    (Cell1 = nth_order_derivative(n, foo, Lit(2)) /\ Finished(1))
      => results[1][1] = RetCtl(Float(NthExpected[n + 1]))

C7_Witness ==
  /\ Cell1 = nth_order_derivative(2, foo, Lit(2))
  /\ Returned(1, Float(2))
  /\ Len(interps) = 3

\* C2: derivative(f, 0.0) is 0.0 for f(x) = mul(x, derivative(g, 0.0)) with
\* g(y) returning the captured x: the inner jvp returns the outer
\* interpreter's dual number as its primal, with tangent 0.
InnerDerivativeReturning ==
  /\ OnFrame(1, "ret", "derivative")
  /\ \E i \in 2..Len(stack[1]) : stack[1][i].f = "derivative"
C2_NoPerturbationConfusion ==
  (Cell1 = Derivative("x", f_confusion, Lit(0)))
    => /\ Finished(1) => results[1][1] = RetCtl(Float(0))
       /\ InnerDerivativeReturning
            => /\ ctl[1].val.snd = Float(0)
               /\ ctl[1].val.fst = TaggedDualNumber(2, Float(0), Float(1))

C2_Witness ==
  /\ Cell1 = Derivative("x", f_confusion, Lit(0))
  /\ Returned(1, Float(0))
  /\ Len(interps) = 3

\* the interpreter installed by the innermost live set_interpreter scope of
\* a stack, the EvalInterpreter when there is none
RECURSIVE EnclosingInterpreter(_)
EnclosingInterpreter(stk) ==
  IF stk = <<>> THEN 1
  ELSE IF Head(stk).f = "set_interpreter" THEN Head(stk).new_interpreter
  ELSE EnclosingInterpreter(Tail(stk))

\* task t leaves a set_interpreter scope in this step
ScopeExitStep(t) ==
  /\ stack[t] # <<>>
  /\ Top(t).f = "set_interpreter"
  /\ stack'[t] = Tail(stack[t])

\* C1: when the body of `with set_interpreter(I)` exits, by normal return or
\* by a raised exception, current_interpreter is the interpreter that was
\* current immediately before the scope was entered, at any nesting depth
\* (the interpreter of the enclosing scope: restoration is last-in-first-out).
C1_ScopeRestores ==
  [][\A t \in Tasks :
       ScopeExitStep(t) =>
         /\ current_interpreter' = Top(t).prev_interpreter
         /\ current_interpreter' = EnclosingInterpreter(stack'[t])]_vars

NestedRaise ==
  Call(Derivative("x", Derivative("x", Add(Ref("x"), Raise), Ref("x")), Ref("x")), 2)
C1_Witness ==
  /\ Cell1 = NestedRaise
  /\ ctl[1].m = "exc"
  /\ Len(stack[1]) = 2
  /\ Len(interps) = 3
  /\ current_interpreter = 1

\* C3: while a JVPInterpreter I executes its rule for a primitive,
\* current_interpreter is I.prev_interpreter, so the component add / mul calls
\* go to that outer interpreter and never back to I; when I.interpret_op
\* returns, current_interpreter is again the interpreter that was current
\* when interpret_op was called.
RuleRunning(t) == stack[t] # <<>> /\ Top(t).f = "jvp_rule"
C3_RuleRunsUnderPrev ==
  [][\A t \in Tasks :
       /\ RuleRunning(t) =>
            /\ current_interpreter = interps[Top(t).self].prev_interpreter
            /\ current_interpreter # Top(t).self
       /\ (ScopeExitStep(t) /\ Top(t).site = "interpret_op") =>
            /\ interps[current_interpreter'].kind = "jvp"
            /\ interps[current_interpreter'].prev_interpreter = Top(t).new_interpreter
            /\ current_interpreter' = EnclosingInterpreter(stack'[t])]_vars

C3_Witness ==
  /\ RuleRunning(1)
  /\ ctl[1].m = "ret"
  /\ Top(1).results # <<>>
  /\ interps[interps[Top(1).self].prev_interpreter].kind = "jvp"
  /\ current_interpreter = interps[Top(1).self].prev_interpreter

\* C4: if jvp or build_jaxpr, at any nesting depth, aborts because the
\* transformed function or a primitive rule raises, then once the exception
\* has left the outermost entry point current_interpreter is the interpreter
\* that was current before the call (the EvalInterpreter), and later unrelated
\* primitive calls are dispatched to it.
C4_AbortRestores ==
  /\ (ctl[1].m = "exc" /\ stack[1] = <<>>) => current_interpreter = 1
  /\ (Len(results[1]) >= 1 /\ results[1][1].m = "exc")
       => /\ ctl[1].m = "call" => current_interpreter = 1
          /\ (Finished(2) /\ program[1][2] = Call(foo, 2))
               => results[1][2] = RetCtl(Float(10))

RuleRaises == Call(Derivative("x", Add(Ref("x"), TupleLeaf), Ref("x")), 2)
C4_Witness ==
  /\ Cell1 = RuleRaises
  /\ Finished(2)
  /\ results[1][1] = ExcCtl("AssertionError")
  /\ results[1][2] = RetCtl(Float(10))
  /\ current_interpreter = 1

\* C5: lift(x) returns x itself when x is a dual number owned by that very
\* JVPInterpreter; in every other case (a concrete value, a dual number of any
\* other interpreter, also one whose differentiation has exited) it returns a
\* dual number owned by self with primal x and tangent 0.0; lift applied
\* twice gives the same as lift applied once.
JVPIds == { i \in DOMAIN interps : interps[i].kind = "jvp" }
Live(i) ==
  \/ current_interpreter = i
  \/ \E t \in Tasks : \E n \in DOMAIN stack[t] :
       stack[t][n].f = "set_interpreter" /\ stack[t][n].new_interpreter = i
ValuesInFlight ==
  UNION { IF ctl[t].m = "ret" THEN {ctl[t].val}
          ELSE IF ctl[t].m = "call" THEN {ctl[t].args[1], ctl[t].args[2]}
          ELSE {} : t \in Tasks }
LiftInputs ==
  LET base == ValuesInFlight \cup { Float(p) : p \in Primals }
  IN base \cup { TaggedDualNumber(j, b, Float(tn)) :
                   j \in JVPIds, b \in base, tn \in Tangents }
C5_LiftContract ==
  \A self \in JVPIds : \A x \in LiftInputs :
    LET r == lift(self, x) IN
      /\ (x.k = "dual" /\ x.interpreter = self) => r = x
      /\ ~ (x.k = "dual" /\ x.interpreter = self)
           => (r.k = "dual" /\ r.interpreter = self /\ r.primal = x
               /\ r.tangent = Float(0))
      /\ lift(self, r) = r

C5_Witness ==
  /\ RuleRunning(1)
  /\ Top(1).y = TaggedDualNumber(Top(1).self, Float(3), Float(0))
  /\ \E j \in JVPIds :
       /\ ~ Live(j)
       /\ lift(Top(1).self, TaggedDualNumber(j, Float(0), Float(1)))
            = TaggedDualNumber(Top(1).self,
                               TaggedDualNumber(j, Float(0), Float(1)), Float(0))

\* C8: differentiating the evaluation of a staged graph gives the same as
\* differentiating the function: jvp(lambda x: eval_jaxpr(build_jaxpr(f, 1),
\* (x,)), p, t) == jvp(f, p, t); for foo at 2.0, 1.0 the result is (10.0, 7.0).
C8_JvpOfGraph ==
  /\ (Finished(2) /\ Cell1.e = "jvp" /\ Cell1.body.e = "eval_jaxpr")
       => /\ Pure(program[1][2].body)
          /\ program[1] = JvpOfGraph(program[1][2].body, Cell1.primal.c, Cell1.tangent.c)
          /\ results[1][1].m = "ret"
          /\ results[1][1] = results[1][2]
  /\ (program[1] = JvpOfGraph(foo, 2, 1) /\ Finished(1))
       => results[1][1] = RetCtl(Tuple2(Float(10), Float(7)))

C8_Witness ==
  /\ program[1] = JvpOfGraph(foo, 2, 1)
  /\ Returned(1, Tuple2(Float(10), Float(7)))
  /\ Returned(2, Tuple2(Float(10), Float(7)))

\* what a Jaxpr holds, its equations read through the list it refers to
JaxprView(j) ==
  [parameters |-> j.parameters, equations |-> equations_of(j),
   return_val |-> j.return_val]

\* the primitive invocations of f in the order in which Python makes them
RECURSIVE PostOrderOps(_)
PostOrderOps(f) ==
  IF f.e = "prim" THEN PostOrderOps(f.a) \o PostOrderOps(f.b) \o <<f.op>>
  ELSE <<>>

\* v_1 -> v_2 = add(v_1, 3.0); v_3 = mul(v_1, v_2); v_3
FooJaxpr ==
  [parameters |-> <<Var("v_1")>>,
   equations |-> <<Equation(Var("v_2"), "add", <<Var("v_1"), Float(3)>>),
                   Equation(Var("v_3"), "mul", <<Var("v_1"), Var("v_2")>>)>>,
   return_val |-> Var("v_3")]

StagingIds == { i \in DOMAIN interps : interps[i].kind = "staging" }

\* C9: build_jaxpr(f, n) records exactly one Equation for each primitive
\* invocation made while f runs under the StagingInterpreter, appended in the
\* order of the invocations, and nothing else; for foo the graph is the
\* parameter v_1, the equations v_2 = add(v_1, 3.0) and v_3 = mul(v_1, v_2),
\* and the return value v_3.
C9_Graphs ==
  /\ (Finished(1) /\ Cell1.e = "build_jaxpr" /\ Pure(Cell1.body))
       => /\ results[1][1].m = "ret"
          /\ LET eqns == equations_of(results[1][1].val)
             IN [i \in DOMAIN eqns |-> eqns[i].op] = PostOrderOps(Cell1.body)
  /\ (Cell1 = BuildJaxpr(<<"x">>, foo) /\ Finished(1))
       => JaxprView(results[1][1].val) = FooJaxpr
C9_OneEquationPerCall ==
  [][/\ \A i \in StagingIds :
          interps'[i].equations # interps[i].equations
            => \E t \in Tasks :
                 /\ ctl[t].m = "call"
                 /\ current_interpreter = i
                 /\ ctl'[t].m = "ret"
                 /\ interps'[i].equations =
                      Append(interps[i].equations,
                             Equation(ctl'[t].val, ctl[t].op, ctl[t].args))
     /\ \A t \in Tasks :
          (ctl[t].m = "call" /\ current_interpreter \in StagingIds /\ ctl'[t] # ctl[t])
            => Len(interps'[current_interpreter].equations)
                 = Len(interps[current_interpreter].equations) + 1
     /\ \A i \in DOMAIN interps' :
          (i \notin DOMAIN interps /\ interps'[i].kind = "staging")
            => interps'[i].equations = <<>>
     /\ C9_Graphs']_vars

C9_Witness ==
  /\ Cell1 = BuildJaxpr(<<"x">>, foo)
  /\ Finished(1)
  /\ JaxprView(results[1][1].val) = FooJaxpr

\* C10: for every f composed of add and mul and every tuple of n concrete
\* inputs, eval_jaxpr(build_jaxpr(f, n), args) evaluated with the
\* EvalInterpreter current equals f(*args); for foo and 2.0 both are 10.0.
C10_StagingRoundTrip ==
  /\ (Finished(2) /\ Cell1.e = "eval_jaxpr")
       => /\ Cell1.jaxpr.e = "build_jaxpr" /\ Pure(Cell1.jaxpr.body)
          /\ \/ program[1] = RoundTrip(Cell1.jaxpr.body, Cell1.args[1].c)
             \/ program[1] = RoundTrip2(Cell1.jaxpr.body, Cell1.args[1].c, Cell1.args[2].c)
          /\ results[1][1].m = "ret"
          /\ results[1][1] = results[1][2]
  /\ (program[1] = RoundTrip(foo, 2) /\ Finished(1))
       => results[1][1] = RetCtl(Float(10))

C10_Witness ==
  /\ program[1] = RoundTrip(foo, 2)
  /\ Returned(1, Float(10))
  /\ Returned(2, Float(10))

-----------------------------------------------------------------------------
(* Properties of the staged graph *)

\* every Jaxpr a task holds as the value just returned to it, or printed
JaxprsHeld ==
  { ctl[t].val : t \in { u \in Tasks : ctl[u].m = "ret" /\ ctl[u].val.k = "jaxpr" } }
  \cup UNION { { results[t][n].val :
                   n \in { k \in DOMAIN results[t] :
                             results[t][k].m = "ret" /\ results[t][k].val.k = "jaxpr" } }
               : t \in Tasks }
\* those of them that build_jaxpr made
JaxprsReturned == { j \in JaxprsHeld : j.equations \in StagingIds }

\* x is an Atom that the graph binds before position i of its equations
BoundAtom(g, x, i) ==
  \/ isFloat(x)
  \/ /\ isVar(x)
     /\ \/ \E n \in DOMAIN g.parameters : g.parameters[n] = x
        \/ \E n \in 1..(i - 1) : g.equations[n].var = x

WellScoped(g) ==
  /\ \A i \in DOMAIN g.equations :
       \A a \in DOMAIN g.equations[i].args :
         BoundAtom(g, g.equations[i].args[a], i)
  /\ BoundAtom(g, g.return_val, Len(g.equations) + 1)

\* C11: in every Jaxpr returned by build_jaxpr, for every traced function,
\* each argument of each equation and the return value is a float literal or
\* a variable that is a parameter of the graph or the result of an earlier
\* equation of it.
C11_WellScoped ==
  \A j \in JaxprsReturned : WellScoped(JaxprView(j))

\* the names a graph binds, in binding order: parameters, then equation results
NamesOf(g) ==
  g.parameters \o [i \in DOMAIN g.equations |-> g.equations[i].var]

\* the graphs under construction: parameters held by a running build_jaxpr,
\* equations recorded so far by its StagingInterpreter
GraphsUnderConstruction ==
  UNION { { [parameters |-> stack[t][n].parameters,
             equations |-> interps[stack[t][n].interpreter].equations]
            : n \in { k \in DOMAIN stack[t] : stack[t][k].f = "build_jaxpr" } }
          : t \in Tasks }

FreshNames(g) ==
  /\ Cardinality({ NamesOf(g)[i] : i \in DOMAIN NamesOf(g) }) = Len(NamesOf(g))
  /\ \A i \in DOMAIN NamesOf(g) : NamesOf(g)[i] = Var("v_" \o ToString(i))

C12_Names ==
  /\ \A j \in JaxprsReturned : FreshNames(JaxprView(j))
  /\ \A g \in GraphsUnderConstruction : FreshNames(g)

\* C12: within one StagingInterpreter the name counter only increases, so the
\* names of a graph (its parameters and its equation results) are pairwise
\* distinct: v_1, v_2, ... in creation order, none bound twice.
C12_FreshNamesDistinct ==
  [][/\ \A i \in StagingIds :
          interps'[i].name_counter >= interps[i].name_counter
     /\ C12_Names']_vars

C12_Witness ==
  /\ Cell1 = BuildJaxpr(<<"x">>, foo)
  /\ Finished(1)
  /\ NamesOf(JaxprView(results[1][1].val)) = <<Var("v_1"), Var("v_2"), Var("v_3")>>
  /\ interps[results[1][1].val.equations].name_counter = 3

-----------------------------------------------------------------------------
(* The dispatch context *)

\* some set_interpreter scope of task t has been entered and not yet left
ScopeActive(t) == \E n \in DOMAIN stack[t] : stack[t][n].f = "set_interpreter"

\* C13: in every reachable state exactly one interpreter is current: an
\* interpreter that exists, the one installed by the innermost active
\* set_interpreter scope, and the EvalInterpreter in the initial state and
\* whenever no set_interpreter scope is active.
C13_OneCurrentInterpreter ==
  /\ current_interpreter \in DOMAIN interps
  /\ current_interpreter = EnclosingInterpreter(stack[1])
  /\ (\A t \in Tasks : ~ScopeActive(t))
       => /\ current_interpreter = 1
          /\ interps[current_interpreter] = EvalInterpreter

\* all scopes of a jvp of a staged graph have been left again
C13_Witness ==
  /\ ~ScopeActive(1)
  /\ ctl[1].m = "ret"
  /\ stack[1] = <<>>
  /\ Cardinality(JVPIds) = 1
  /\ Cardinality(StagingIds) = 1
  /\ current_interpreter = 1

-----------------------------------------------------------------------------
(* Two threads of control *)

\* what one thread runs while the other calls foo(2.0)
ConcPrograms ==
  { <<Jvp("x", foo, Lit(2), Lit(1))>>,
    <<Derivative("x", foo, Lit(2))>>,
    <<Derivative("x", Add(Ref("x"), Raise), Lit(2))>>,
    <<EvalJaxpr(BuildJaxpr(<<"x">>, foo), <<Lit(2)>>)>>,
    <<EvalJaxpr(UnknownOpGraph, <<Lit(2)>>)>> }

\* what the second thread runs meanwhile: a plain call, or a scope of its own
\* (jvp(lambda x: x, 2.0, 1.0), which enters and leaves without a primitive)
ConcOthers ==
  { <<Call(foo, 2)>>,
    <<Jvp("x", Ref("x"), Lit(2), Lit(1))>> }

\* the programs that are one complete set_interpreter scope; two of them
\* are run side by side
ScopePrograms ==
  { <<Jvp("x", foo, Lit(2), Lit(1))>>,
    <<Jvp("x", Ref("x"), Lit(2), Lit(1))>>,
    <<Derivative("x", foo, Lit(2))>> }

InitConc ==
  /\ current_interpreter = 1
  /\ interps = <<EvalInterpreter>>
  /\ \E prog \in ConcPrograms :
       \E other \in ConcOthers :
         /\ other \in ScopePrograms => prog \in ScopePrograms
         /\ program = [t \in Tasks |-> IF t = 1 THEN prog ELSE other]
  /\ cell = [t \in Tasks |-> 1]
  /\ ctl = [t \in Tasks |-> IdleCtl]
  /\ stack = [t \in Tasks |-> <<>>]
  /\ results = [t \in Tasks |-> <<>>]
  /\ pytree = NoPyTree

SpecConc == InitConc /\ [][Next]_vars

\* C14: when two tasks run concurrently, a primitive call (add or mul) made by
\* a task is dispatched to the interpreter of that task's own innermost
\* set_interpreter scope (the EvalInterpreter when it has none), never to an
\* interpreter installed by the other task.
C14_TaskIsolation ==
  \A t \in Tasks :
    ctl[t].m = "call" => current_interpreter = EnclosingInterpreter(stack[t])

-----------------------------------------------------------------------------
(* Termination of dispatch *)

\* the JVPInterpreters whose rule is running on a stack
RuleSelves(stk) ==
  { stk[n].self : n \in { k \in DOMAIN stk : stk[k].f = "jvp_rule" } }
RuleDepth(stk) ==
  Cardinality({ k \in DOMAIN stk : stk[k].f = "jvp_rule" })

\* the number of JVPInterpreters from interpreter i along prev_interpreter
RECURSIVE ChainLen(_)
ChainLen(i) ==
  IF interps[i].kind = "jvp" THEN 1 + ChainLen(interps[i].prev_interpreter) ELSE 0

\* C15: the prev_interpreter chain of every JVPInterpreter is finite and
\* acyclic (prev_interpreter was created before it) and ends at an interpreter
\* that is not a JVPInterpreter; a primitive call is never dispatched to a
\* JVPInterpreter whose rule is already running, so under n nested
\* JVPInterpreters at most n rules are in progress at once, the k-th of them
\* k links down the chain from the interpreter that received the call, and
\* dispatch does not recurse endlessly.
C15_DispatchTerminates ==
  /\ \A i \in JVPIds :
       /\ interps[i].prev_interpreter \in DOMAIN interps
       /\ interps[i].prev_interpreter < i
  /\ \A t \in Tasks :
       /\ ctl[t].m = "call" => current_interpreter \notin RuleSelves(stack[t])
       /\ RuleDepth(stack[t]) = Cardinality(RuleSelves(stack[t]))
       /\ RuleDepth(stack[t]) <= Cardinality(JVPIds)
       /\ RuleRunning(t) =>
            RuleDepth(stack[t]) + ChainLen(current_interpreter)
              = ChainLen(EnclosingInterpreter(
                  SubSeq(stack[t], 2 * RuleDepth(stack[t]) + 1, Len(stack[t]))))

\* the innermost of MaxOrder nested rules has reached the EvalInterpreter
C15_Witness ==
  /\ RuleDepth(stack[1]) = MaxOrder
  /\ ChainLen(EnclosingInterpreter(SubSeq(stack[1], 2 * MaxOrder + 1, Len(stack[1]))))
       = MaxOrder
  /\ interps[current_interpreter].kind = "eval"
  /\ ctl[1].m = "ret"

-----------------------------------------------------------------------------
(* The graph as a value *)

\* build_jaxpr has returned the graph recorded by StagingInterpreter i
BuildReturned(i) ==
  \A t \in Tasks : \A n \in DOMAIN stack[t] :
    stack[t][n].f = "build_jaxpr" => stack[t][n].interpreter # i

\* the graph j as it reads when the heap of lists is I
ViewIn(j, I) ==
  [parameters |-> j.parameters, equations |-> I[j.equations].equations,
   return_val |-> j.return_val]

\* the cell evaluates one graph twice on the same input and both results
\* are at hand: the first as the saved operand of add, the second just returned
BothEvaluated ==
  /\ OnFrame(1, "ret", "arg2")
  /\ \/ Cell1.e = "let" /\ Cell1.def.e = "build_jaxpr"
        /\ Cell1 = Twice(Cell1.def.body, Lit(MaxPrimal))
        /\ Len(stack[1]) = 1
     \/ Cell1.e = "jvp" /\ Cell1.body = Twice(foo, Ref("x"))
        /\ Len(stack[1]) = 3

C16_SameResult == BothEvaluated => ctl[1].val = Top(1).x

-----------------------------------------------------------------------------
(* Errors *)

\* task t is calling a primitive that the EvalInterpreter will interpret,
\* with an argument that is not a float
NonConcreteCall(t) ==
  /\ ctl[t].m = "call"
  /\ interps[current_interpreter].kind = "eval"
  /\ \E i \in DOMAIN ctl[t].args : ~isFloat(ctl[t].args[i])

\* a raised exception is never caught: it stays the task's outcome until it
\* is reported as the outcome of the cell
Propagates(t) ==
  ctl[t].m = "exc" =>
    \/ ctl'[t] = ctl[t]
    \/ /\ ctl'[t] = IdleCtl
       /\ stack[t] = <<>>
       /\ results'[t] = Append(results[t], ctl[t])

\* C17: EvalInterpreter.interpret_op fails its assertion on the argument types
\* (AssertionError) and computes no result whenever any argument is not a
\* float; the error goes to the caller at once and propagates, nothing
\* catches it and nothing retries.
C17_EvalRejectsNonConcrete ==
  [][\A t \in Tasks :
       /\ (NonConcreteCall(t) /\ ctl'[t] # ctl[t])
            => /\ ctl'[t] = ExcCtl("AssertionError")
               /\ stack' = stack
               /\ interps' = interps
               /\ current_interpreter' = current_interpreter
       /\ Propagates(t)]_vars

\* add(x, jvp(...)) with a float x: the tuple fails the assertion, and the
\* error is the outcome of the cell
C17_Witness ==
  /\ Cell1 = Call(Add(Ref("x"), TupleLeaf), 2)
  /\ Finished(1)
  /\ results[1][1] = ExcCtl("AssertionError")

\* the atom x is a variable that env does not bind
Unbound(env, x) == isVar(x) /\ x.name \notin DOMAIN env

\* what eval_jaxpr looks up next once equation i - 1 of g is done: the
\* arguments of equation i, or the return value after the last equation
LooksUpUnbound(env, g, i) ==
  IF i <= Len(g.equations)
  THEN \E a \in DOMAIN g.equations[i].args : Unbound(env, g.equations[i].args[a])
  ELSE Unbound(env, g.return_val)

\* the hand-written graph g, given one input, reads a variable that neither
\* is its parameter nor was bound by an earlier equation
ReadsFree(g) ==
  ~WellScoped([parameters |-> g.parameters, equations |-> g.equations,
               return_val |-> g.return_val])

C18_Outcomes ==
  /\ (Finished(1) /\ Cell1.e = "eval_jaxpr" /\ Cell1.jaxpr.e = "jaxpr"
        /\ Cell1.jaxpr \in HandGraphs)
       => (ReadsFree(Cell1.jaxpr) <=> results[1][1] = ExcCtl("KeyError"))
  /\ (Finished(1) /\ Cell1.e = "derivative" /\ Cell1.body.e = "eval_jaxpr"
        /\ Cell1.body.jaxpr \in HandGraphs)
       => /\ ReadsFree(Cell1.body.jaxpr) <=> results[1][1] = ExcCtl("KeyError")
          /\ ctl[1].m = "call" => current_interpreter = 1
  /\ (Finished(1) /\ Cell1.e = "eval_jaxpr" /\ Cell1.args = <<>>
        /\ Cell1.jaxpr.e = "build_jaxpr")
       => (Mentions(Cell1.jaxpr.body, Ref("x")) <=> results[1][1] = ExcCtl("KeyError"))

\* C18: eval_jaxpr fails with an unbound-variable error (KeyError) whenever
\* an argument of the equation it comes to, or the return value, is a
\* variable that the environment does not bind: not a parameter bound to an
\* input and not the result of an earlier equation. The error leaves
\* eval_jaxpr and every caller; nothing catches it and nothing retries.
C18_UnboundVariable ==
  [][/\ \A t \in Tasks :
          /\ (OnFrame(t, "ret", "eval_jaxpr") /\ <<ctl[t], stack[t]>>' # <<ctl[t], stack[t]>>)
               => LET fr == Top(t)
                      g == JaxprView(fr.jaxpr)
                      env == Bind(fr.env, g.equations[fr.i].var.name, ctl[t].val)
                  IN LooksUpUnbound(env, g, fr.i + 1)
                       => /\ ctl'[t] = ExcCtl("KeyError")
                          /\ stack'[t] = Tail(stack[t])
          /\ Propagates(t)
     /\ C18_Outcomes']_vars

\* the equation v_2 = add(v_3, 3.0) reads v_3, which nothing binds; under
\* derivative the KeyError leaves the jvp scope and ends the cell
C18_Witness ==
  /\ Cell1.e = "derivative"
  /\ Cell1.body.e = "eval_jaxpr"
  /\ Cell1.body.jaxpr =
       JaxprOf(<<Var("v_1")>>, <<Equation(Var("v_2"), "add", <<Var("v_3"), Float(3)>>)>>,
               Var("v_2"))
  /\ Finished(1)
  /\ results[1][1] = ExcCtl("KeyError")
  /\ current_interpreter = 1

\* the interpreters that choose a handler by matching on the op; the
\* StagingInterpreter records every op alike
MatchesOnOp(i) == interps[i].kind \in {"eval", "jvp"}

\* C19: every interpreter that handles primitives one by one, asked to
\* interpret a primitive it has no handler for (an op that is neither add nor
\* mul), fails with an error; none of them returns a result for it.
C19_UnsupportedPrimitive ==
  [][\A t \in Tasks :
       (/\ ctl[t].m = "call"
        /\ ctl[t].op \notin Ops
        /\ MatchesOnOp(current_interpreter)
        /\ ctl'[t] # ctl[t])
         => ctl'[t].m = "exc"]_vars

-----------------------------------------------------------------------------
(* Printing a graph *)

\* Var = str: a Python string is a value of the same type as a variable name
PyStr(s) == Var(s)

\* sep.join(items) for strings
RECURSIVE str_join(_, _)
str_join(sep, items) ==
  IF items = <<>> THEN ""
  ELSE IF Len(items) = 1 THEN items[1]
  ELSE items[1] \o sep \o str_join(sep, Tail(items))

\* repr(x); the floats of the model are whole numbers, 3.0 prints as 3.0; an
\* interpreter object prints with its identity
RECURSIVE py_repr(_)
py_repr(x) ==
  IF x.k = "float" THEN ToString(x.v) \o ".0"
  ELSE IF x.k = "var" THEN "'" \o x.name \o "'"
  ELSE IF x.k = "none" THEN "None"
  ELSE IF x.k = "tuple" THEN "(" \o py_repr(x.fst) \o ", " \o py_repr(x.snd) \o ")"
  ELSE IF x.k = "dual"
  THEN "TaggedDualNumber(interpreter=<JVPInterpreter " \o ToString(x.interpreter)
         \o ">, primal=" \o py_repr(x.primal) \o ", tangent=" \o py_repr(x.tangent) \o ")"
  ELSE "Jaxpr(...)"

\* str(x): a string is printed bare
py_str(x) == IF x.k = "var" THEN x.name ELSE py_repr(x)

\* f'{eqn.op}': a member of the enum Op prints with the class name
op_str(op) == IF op \in Ops THEN "Op." \o op ELSE op

\* Jaxpr.__str__: the list lines holds strings and, last, self.return_val as
\* it is; '\n'.join(lines) raises TypeError on an item that is not a string
Jaxpr_str(g) ==
  LET line(eqn) ==
        PyStr("  " \o py_str(eqn.var) \o " = " \o op_str(eqn.op) \o "("
              \o str_join(", ", [a \in DOMAIN eqn.args |-> py_str(eqn.args[a])]) \o ")")
      lines ==
        IF \E n \in DOMAIN g.parameters : ~isVar(g.parameters[n])
        THEN <<None>>
        ELSE <<PyStr(str_join(", ", [n \in DOMAIN g.parameters |-> g.parameters[n].name])
                     \o " ->")>>
             \o [i \in DOMAIN g.equations |-> line(g.equations[i])]
             \o <<g.return_val>>
  IN IF \E i \in DOMAIN lines : ~isVar(lines[i])
     THEN [ok |-> FALSE, err |-> "TypeError"]
     ELSE [ok |-> TRUE,
           lines |-> [i \in DOMAIN lines |-> lines[i].name],
           text |-> str_join("\n", [i \in DOMAIN lines |-> lines[i].name])]

\* the output of print(build_jaxpr(foo, 1))
FooText == "v_1 ->\n  v_2 = Op.add(v_1, 3.0)\n  v_3 = Op.mul(v_1, v_2)\nv_3"

\* C20: for every graph returned by build_jaxpr, Jaxpr.__str__ succeeds and
\* yields len(equations) + 2 lines: the comma-joined parameter names followed
\* by ' ->', one line per equation in order, and one line holding the return
\* atom; for foo it is the text the notebook shows.
C20_StrOfGraph ==
  /\ \A j \in JaxprsReturned :
       LET g == JaxprView(j)
           s == Jaxpr_str(g)
       IN /\ s.ok
          /\ Len(s.lines) = Len(g.equations) + 2
          /\ s.lines[Len(s.lines)] = py_str(g.return_val)
  /\ (Cell1 = BuildJaxpr(<<"x">>, foo) /\ Finished(1))
       => Jaxpr_str(JaxprView(results[1][1].val)) =
            [ok |-> TRUE, text |-> FooText,
             lines |-> <<"v_1 ->", "  v_2 = Op.add(v_1, 3.0)",
                         "  v_3 = Op.mul(v_1, v_2)", "v_3">>]

-----------------------------------------------------------------------------
(* Concrete evaluation *)

\* the number f denotes at x in ordinary arithmetic
RECURSIVE f_value(_, _)
f_value(f, x) ==
  IF f.e = "ref" THEN x
  ELSE IF f.e = "lit" THEN f.c
  ELSE IF f.op = "add" THEN f_value(f.a, x) + f_value(f.b, x)
  ELSE f_value(f.a, x) * f_value(f.b, x)

\* the first cell is f(p) for an f composed of add and mul
PlainCall ==
  /\ Cell1.e = "let" /\ Cell1.name = "x" /\ Cell1.def.e = "lit"
  /\ Pure(Cell1.body)

C21_Values ==
  /\ (PlainCall /\ Finished(1))
       => results[1][1] = RetCtl(Float(f_value(Cell1.body, Cell1.def.c)))
  /\ (PlainCall /\ Cell1.body = foo /\ Finished(1))
       => results[1][1] = RetCtl(Float(Cell1.def.c * (Cell1.def.c + 3)))
  /\ (Cell1 = Call(foo, 2) /\ Finished(1)) => results[1][1] = RetCtl(Float(10))

\* C21: with the EvalInterpreter current, add(x, y) returns x + y and
\* mul(x, y) returns x * y for floats x and y, and nothing else changes; so
\* f(p) is the value of f at p, foo(p) is p * (p + 3.0), and foo(2.0) is 10.0.
C21_EvalArithmetic ==
  [][/\ \A t \in Tasks :
          (/\ ctl[t].m = "call"
           /\ interps[current_interpreter].kind = "eval"
           /\ ctl[t].op \in Ops
           /\ \A i \in DOMAIN ctl[t].args : isFloat(ctl[t].args[i])
           /\ ctl'[t] # ctl[t])
            => /\ ctl'[t] = RetCtl(Float(IF ctl[t].op = "add"
                                         THEN ctl[t].args[1].v + ctl[t].args[2].v
                                         ELSE ctl[t].args[1].v * ctl[t].args[2].v))
               /\ UNCHANGED <<pytree, current_interpreter, interps, stack, results>>
     /\ C21_Values']_vars

C21_Witness ==
  /\ Cell1 = Call(foo, 2)
  /\ Len(program[1]) = 1
  /\ Returned(1, Float(10))
  /\ Len(interps) = 1

-----------------------------------------------------------------------------
(* Nested structures: flatten and unflatten *)

MaxNodes == 4
MaxLeafValue == 2

\* the names a dict may use as keys, in sorted order; also the table of
\* interned strings of a descriptor
DictKeys == <<"a", "b">>

\* the supported structures
Leaf(v) == [t |-> "leaf", v |-> v]
PyNone == [t |-> "none"]
PyList(items) == [t |-> "list", items |-> items]
PyTuple(items) == [t |-> "tuple", items |-> items]
PyDict(d) == [t |-> "dict", d |-> d]

\* strictly increasing choices of k positions of DictKeys
KeyChoices(k) ==
  { s \in [1..k -> 1..Len(DictKeys)] : \A i \in 1..(k - 1) : s[i] < s[i + 1] }

\* the dict with the chosen keys, the i-th key bound to the i-th item
DictOf(ids, items) ==
  PyDict([key \in { DictKeys[ids[i]] : i \in DOMAIN ids } |->
            items[CHOOSE i \in DOMAIN ids : DictKeys[ids[i]] = key]])

\* the structures of exactly n nodes, and the sequences of structures of m
\* nodes in all
RECURSIVE TreesOfSize(_)
RECURSIVE ForestsOfSize(_)
TreesOfSize(n) ==
  (IF n = 1 THEN { Leaf(v) : v \in 1..MaxLeafValue } \cup {PyNone} ELSE {})
  \cup { PyList(f) : f \in ForestsOfSize(n - 1) }
  \cup { PyTuple(f) : f \in ForestsOfSize(n - 1) }
  \cup UNION { { DictOf(ids, f) : ids \in KeyChoices(Len(f)) }
               : f \in { g \in ForestsOfSize(n - 1) : Len(g) <= Len(DictKeys) } }
ForestsOfSize(m) ==
  IF m = 0 THEN { <<>> }
  ELSE UNION { { <<x>> \o f : x \in TreesOfSize(i), f \in ForestsOfSize(m - i) }
               : i \in 1..m }

Trees == UNION { TreesOfSize(n) : n \in 1..MaxNodes }

\* a node definition that does not record the arity
PyTreeNodeDefProto_noArity(arity, type, dict_keys) ==
  [arity |-> 0, type |-> type, dict_keys |-> dict_keys]

\* PyTreeNodeDefProto and PyTreeDefProto
PyTreeNodeDefProto(arity, type, dict_keys) ==
  [arity |-> arity, type |-> type, dict_keys |-> dict_keys]
PyTreeDefProto(nodes) == [nodes |-> nodes, interned_strings |-> DictKeys]

\* the positions in DictKeys of the keys of a dict, in sorted order
RECURSIVE SortedKeyIds(_, _)
SortedKeyIds(d, i) ==
  IF i > Len(DictKeys) THEN <<>>
  ELSE (IF DictKeys[i] \in DOMAIN d THEN <<i>> ELSE <<>>) \o SortedKeyIds(d, i + 1)

\* the children of a container, in the order in which they are flattened
Children(x) ==
  IF x.t \in {"list", "tuple"} THEN x.items
  ELSE IF x.t = "dict"
  THEN LET ids == SortedKeyIds(x.d, 1) IN [i \in DOMAIN ids |-> x.d[DictKeys[ids[i]]]]
  ELSE <<>>

\* flatten(value): the leaves left to right, and the nodes of the
\* descriptor, children before their container
RECURSIVE flatten_into(_, _)
RECURSIVE flatten_all(_, _)
flatten_into(x, acc) ==
  IF x.t = "leaf"
  THEN [leaves |-> Append(acc.leaves, x.v),
        nodes |-> Append(acc.nodes, PyTreeNodeDefProto(0, "LEAF", <<>>))]
  ELSE IF x.t = "none"
  THEN [leaves |-> acc.leaves,
        nodes |-> Append(acc.nodes, PyTreeNodeDefProto(0, "NONE", <<>>))]
  ELSE LET sub == flatten_all(Children(x), acc)
           kind == IF x.t = "list" THEN "LIST" ELSE IF x.t = "tuple" THEN "TUPLE" ELSE "DICT"
           keys == IF x.t = "dict" THEN SortedKeyIds(x.d, 1) ELSE <<>>
       IN [leaves |-> sub.leaves,
           nodes |-> Append(sub.nodes, PyTreeNodeDefProto(Len(Children(x)), kind, keys))]
flatten_all(xs, acc) ==
  IF xs = <<>> THEN acc ELSE flatten_all(Tail(xs), flatten_into(Head(xs), acc))

flatten(value) ==
  LET r == flatten_into(value, [leaves |-> <<>>, nodes |-> <<>>])
  IN [leaves |-> r.leaves, descriptor |-> PyTreeDefProto(r.nodes)]

\* the leaf count a descriptor implies
num_leaves(descriptor) ==
  Cardinality({ i \in DOMAIN descriptor.nodes : descriptor.nodes[i].type = "LEAF" })

\* the structures rebuilt so far, after the nodes have been read in order:
\* a leaf node takes the next leaf, a container node takes the last arity
\* structures as its children
RECURSIVE rebuild(_, _, _, _)
rebuild(descriptor, nodes, leaves, built) ==
  IF nodes = <<>> THEN built
  ELSE LET node == Head(nodes)
           k == node.arity
           kept == SubSeq(built, 1, Len(built) - k)
           kids == SubSeq(built, Len(built) - k + 1, Len(built))
       IN IF node.type = "LEAF"
          THEN rebuild(descriptor, Tail(nodes), Tail(leaves), Append(built, Leaf(Head(leaves))))
          ELSE IF node.type = "NONE"
          THEN rebuild(descriptor, Tail(nodes), leaves, Append(built, PyNone))
          ELSE IF node.type = "LIST"
          THEN rebuild(descriptor, Tail(nodes), leaves, Append(kept, PyList(kids)))
          ELSE IF node.type = "TUPLE"
          THEN rebuild(descriptor, Tail(nodes), leaves, Append(kept, PyTuple(kids)))
          ELSE rebuild(descriptor, Tail(nodes), leaves,
                       Append(kept,
                              PyDict([key \in { descriptor.interned_strings[node.dict_keys[i]]
                                                : i \in 1..k } |->
                                        kids[CHOOSE i \in 1..k :
                                               descriptor.interned_strings[node.dict_keys[i]] = key]])))

\* unflatten that refuses too few leaves only, and ignores surplus leaves
unflatten_ignoresSurplus(descriptor, leaves) ==
  IF Len(leaves) < num_leaves(descriptor)
  THEN [ok |-> FALSE, err |-> "ArityMismatch"]
  ELSE LET built == rebuild(descriptor, descriptor.nodes, leaves, <<>>)
       IN [ok |-> TRUE, value |-> built[Len(built)]]

\* unflatten(descriptor, leaves)
unflatten(descriptor, leaves) ==
  IF Len(leaves) # num_leaves(descriptor)
  THEN [ok |-> FALSE, err |-> "ArityMismatch"]
  ELSE LET built == rebuild(descriptor, descriptor.nodes, leaves, <<>>)
       IN [ok |-> TRUE, value |-> built[Len(built)]]

\* the leaf sequences handed to unflatten: the flattened leaves, each proper
\* prefix of them, and the leaves with one more leaf at the end
LeafSequences(leaves) ==
  { SubSeq(leaves, 1, m) : m \in 0..Len(leaves) }
  \cup { Append(leaves, v) : v \in 1..MaxLeafValue }

InitTree ==
  /\ current_interpreter = 1
  /\ interps = <<EvalInterpreter>>
  /\ program = [t \in Tasks |-> <<>>]
  /\ cell = [t \in Tasks |-> 1]
  /\ ctl = [t \in Tasks |-> IdleCtl]
  /\ stack = [t \in Tasks |-> <<>>]
  /\ results = [t \in Tasks |-> <<>>]
  /\ \E s \in Trees : pytree = [phase |-> "value", value |-> s]

Flatten ==
  /\ pytree.phase = "value"
  /\ LET r == flatten(pytree.value)
     IN pytree' = [phase |-> "flat", value |-> pytree.value,
                   leaves |-> r.leaves, descriptor |-> r.descriptor]
  /\ UNCHANGED <<current_interpreter, interps, program, cell, ctl, stack, results>>

Unflatten ==
  /\ pytree.phase = "flat"
  /\ \E given \in LeafSequences(pytree.leaves) :
       pytree' = [phase |-> "rebuilt", value |-> pytree.value,
                  leaves |-> pytree.leaves, descriptor |-> pytree.descriptor,
                  given |-> given, result |-> unflatten(pytree.descriptor, given)]
  /\ UNCHANGED <<current_interpreter, interps, program, cell, ctl, stack, results>>

NextTree == Flatten \/ Unflatten

SpecTree == InitTree /\ [][NextTree]_vars

\* C22: for every supported nested structure s (leaf, list, tuple, dict with
\* named keys, None), the number of leaves flatten(s) returns is the leaf
\* count its descriptor implies, and unflatten applied to that descriptor and
\* those leaves rebuilds a structure equal to s.
C22_FlattenRoundTrip ==
  /\ pytree.phase \in {"flat", "rebuilt"}
       => Len(pytree.leaves) = num_leaves(pytree.descriptor)
  /\ (pytree.phase = "rebuilt" /\ pytree.given = pytree.leaves)
       => pytree.result = [ok |-> TRUE, value |-> pytree.value]

\* a tuple holding a dict and a leaf comes back as it was
C22_Witness ==
  /\ pytree.phase = "rebuilt"
  /\ pytree.value = PyTuple(<<PyDict([key \in {"b"} |-> Leaf(2)]), Leaf(1)>>)
  /\ pytree.leaves = <<2, 1>>
  /\ pytree.given = pytree.leaves
  /\ pytree.result.ok
  /\ pytree.result.value = pytree.value

\* C23: unflatten applied to a descriptor with n leaves and a leaf sequence
\* of length m # n fails with ArityMismatch and builds no value.
C23_ArityMismatch ==
  (pytree.phase = "rebuilt" /\ Len(pytree.given) # num_leaves(pytree.descriptor))
    => pytree.result = [ok |-> FALSE, err |-> "ArityMismatch"]

\* three leaves handed to the descriptor of a list of two
C23_Witness ==
  /\ pytree.phase = "rebuilt"
  /\ pytree.value = PyList(<<Leaf(1), Leaf(2)>>)
  /\ num_leaves(pytree.descriptor) = 2
  /\ Len(pytree.given) = 3
  /\ pytree.result = [ok |-> FALSE, err |-> "ArityMismatch"]

-----------------------------------------------------------------------------
(* The differentiation rules *)

\* the rule of a JVPInterpreter for op is running in task t and has just
\* made a component call, or has just got the result of one
RuleAt(t, op, m) == RuleRunning(t) /\ Top(t).op = op /\ ctl[t].m = m

\* x is a dual number owned by interpreter i
OwnDual(i, x) == x.k = "dual" /\ x.interpreter = i

\* the rule's frame is popped in this step and its caller gets a value
RuleReturns(t) ==
  /\ RuleRunning(t)
  /\ ctl[t].m = "ret"
  /\ stack'[t] = Tail(stack[t])
  /\ ctl'[t].m = "ret"

C24_MulCalls ==
  \A t \in Tasks :
    RuleAt(t, "mul", "call") =>
      LET fr == Top(t)
          rs == fr.results
      IN /\ OwnDual(fr.self, fr.x) /\ OwnDual(fr.self, fr.y)
         /\ current_interpreter = interps[fr.self].prev_interpreter
         /\ Len(rs) <= 3
         /\ Len(rs) = 0 => ctl[t] = CallCtl("mul", <<fr.x.primal, fr.y.primal>>)
         /\ Len(rs) = 1 => ctl[t] = CallCtl("mul", <<fr.x.primal, fr.y.tangent>>)
         /\ Len(rs) = 2 => ctl[t] = CallCtl("mul", <<fr.x.tangent, fr.y.primal>>)
         /\ Len(rs) = 3 => ctl[t] = CallCtl("add", <<rs[2], rs[3]>>)

\* C24: JVPInterpreter.interpret_op for mul, on the lifted arguments x and y,
\* makes four component calls while its prev_interpreter is current:
\* mul(x.primal, y.primal), mul(x.primal, y.tangent), mul(x.tangent, y.primal)
\* and add of the last two results, and returns the dual number owned by that
\* interpreter whose primal is the first result and whose tangent is the
\* fourth.
C24_MulRule ==
  [][/\ \A t \in Tasks :
          (RuleReturns(t) /\ Top(t).op = "mul")
            => /\ Len(Top(t).results) = 3
               /\ ctl'[t].val =
                    TaggedDualNumber(Top(t).self, Top(t).results[1], ctl[t].val)
               /\ interps[current_interpreter].kind = "eval"
                    => ctl'[t].val =
                         TaggedDualNumber(Top(t).self,
                           Float(Top(t).x.primal.v * Top(t).y.primal.v),
                           Float(Top(t).x.primal.v * Top(t).y.tangent.v
                                 + Top(t).x.tangent.v * Top(t).y.primal.v))
     /\ C24_MulCalls']_vars

\* jvp(foo, 2.0, 1.0) at mul(x, add(x, 3.0)): x = (2, 1), y = (5, 1), the
\* three products are 10, 2, 5 and their sum 7 has just come back
C24_Witness ==
  /\ RuleAt(1, "mul", "ret")
  /\ interps[current_interpreter].kind = "eval"
  /\ Top(1).x = TaggedDualNumber(Top(1).self, Float(2), Float(1))
  /\ Top(1).y = TaggedDualNumber(Top(1).self, Float(5), Float(1))
  /\ Top(1).results = <<Float(10), Float(2), Float(5)>>
  /\ ctl[1].val = Float(7)

C25_AddCalls ==
  \A t \in Tasks :
    RuleAt(t, "add", "call") =>
      LET fr == Top(t)
          rs == fr.results
      IN /\ OwnDual(fr.self, fr.x) /\ OwnDual(fr.self, fr.y)
         /\ current_interpreter = interps[fr.self].prev_interpreter
         /\ Len(rs) <= 1
         /\ Len(rs) = 0 => ctl[t] = CallCtl("add", <<fr.x.primal, fr.y.primal>>)
         /\ Len(rs) = 1 => ctl[t] = CallCtl("add", <<fr.x.tangent, fr.y.tangent>>)

\* C25: JVPInterpreter.interpret_op for add, on the lifted arguments x and y,
\* makes two component calls while its prev_interpreter is current:
\* add(x.primal, y.primal) and add(x.tangent, y.tangent), and returns the
\* dual number owned by that interpreter whose primal is the first result
\* and whose tangent is the second.
C25_AddRule ==
  [][/\ \A t \in Tasks :
          (RuleReturns(t) /\ Top(t).op = "add")
            => /\ Len(Top(t).results) = 1
               /\ ctl'[t].val =
                    TaggedDualNumber(Top(t).self, Top(t).results[1], ctl[t].val)
               /\ interps[current_interpreter].kind = "eval"
                    => ctl'[t].val =
                         TaggedDualNumber(Top(t).self,
                           Float(Top(t).x.primal.v + Top(t).y.primal.v),
                           Float(Top(t).x.tangent.v + Top(t).y.tangent.v))
     /\ C25_AddCalls']_vars

\* jvp(foo, 2.0, 1.0) at add(x, 3.0): x = (2, 1), 3.0 lifted to (3, 0), the
\* primal sum is 5 and the tangent sum 1 has just come back
C25_Witness ==
  /\ RuleAt(1, "add", "ret")
  /\ interps[current_interpreter].kind = "eval"
  /\ Top(1).x = TaggedDualNumber(Top(1).self, Float(2), Float(1))
  /\ Top(1).y = TaggedDualNumber(Top(1).self, Float(3), Float(0))
  /\ Top(1).results = <<Float(5)>>
  /\ ctl[1].val = Float(1)

-----------------------------------------------------------------------------
(* Two scopes on the shared dispatch context *)

\* task t has run its cells to the end and holds no frame
Exited(t) ==
  /\ Len(results[t]) = Len(program[t])
  /\ stack[t] = <<>>
  /\ ctl[t] = IdleCtl

\* C26: when two tasks each run a complete set_interpreter scope, in any
\* interleaving, then after both scopes have exited current_interpreter is
\* the interpreter that was current before either scope was entered (the
\* EvalInterpreter, id 1).
C26_ScopesRestore ==
  ((\A t \in Tasks : program[t] \in ScopePrograms /\ Exited(t))
     => current_interpreter = 1)

-----------------------------------------------------------------------------
(* What a staged primitive changes *)

\* the build_jaxpr frames of task t, innermost first
BuildFrames(t) == SelectSeq(stack[t], LAMBDA fr : fr.f = "build_jaxpr")

\* task t hands a primitive to the current StagingInterpreter in this step
Stages(t) ==
  /\ ctl[t].m = "call"
  /\ interps[current_interpreter].kind = "staging"
  /\ ctl'[t] # ctl[t]

\* C27: a primitive invocation dispatched to a StagingInterpreter appends one
\* equation to that interpreter's list, advances its name counter by one and
\* changes nothing else: no other interpreter, not the current interpreter,
\* not the stack. A build_jaxpr call nested inside another has an
\* interpreter of its own, and while it is active the interpreters of the
\* enclosing build_jaxpr calls do not change.
C27_StagingFrame ==
  [][/\ \A t \in Tasks :
          Stages(t) =>
            LET S == current_interpreter IN
              /\ DOMAIN interps' = DOMAIN interps
              /\ \A i \in DOMAIN interps \ {S} : interps'[i] = interps[i]
              /\ interps'[S] =
                   [interps[S] EXCEPT
                      !.name_counter = @ + 1,
                      !.equations =
                        Append(@, Equation(ctl'[t].val, ctl[t].op, ctl[t].args))]
              /\ UNCHANGED <<current_interpreter, stack, results, program, cell>>
     /\ \A t \in Tasks : \A n \in 2..Len(BuildFrames(t)) :
          LET outer == BuildFrames(t)[n].interpreter IN
            /\ \A m \in 1..(n - 1) : BuildFrames(t)[m].interpreter # outer
            /\ interps'[outer] = interps[outer]
     /\ \A i \in DOMAIN interps :
          interps'[i] # interps[i] => i = current_interpreter]_vars

\* build_jaxpr(lambda x: add(mul(x, 3.0), eval_jaxpr(build_jaxpr(foo, 1), (x,))), 1):
\* the nested call has staged foo's two equations under its own names v_2,
\* v_3, and the enclosing builder still holds v_2 = mul(v_1, 3.0) alone
C27_Witness ==
  /\ Cell1 = Nested(foo)
  /\ Len(BuildFrames(1)) = 2
  /\ LET inner == BuildFrames(1)[1].interpreter
         outer == BuildFrames(1)[2].interpreter
     IN /\ Len(interps[inner].equations) = 2
        /\ interps[inner].name_counter = 3
        /\ interps[outer].equations =
             <<Equation(Var("v_2"), "mul", <<Var("v_1"), Float(3)>>)>>
        /\ interps[outer].name_counter = 2

-----------------------------------------------------------------------------
(* jvp inside a traced function *)

\* the operations the rules of a JVPInterpreter issue for f, in order: two
\* adds for an add, three muls and an add for a mul
RECURSIVE RuleOps(_)
RuleOps(f) ==
  IF f.e = "prim"
  THEN RuleOps(f.a) \o RuleOps(f.b)
       \o (IF f.op = "add" THEN <<"add", "add">> ELSE <<"mul", "mul", "mul", "add">>)
  ELSE <<>>

\* the last n equations of a list
LastEquations(eqns, n) == SubSeq(eqns, Len(eqns) - n + 1, Len(eqns))

\* v_k
VarNo(k) == Var("v_" \o ToString(k))

C28_Graphs ==
  /\ \A f \in SmallFns :
       (Cell1 = StagedJvp(f) /\ Finished(1))
         => /\ results[1][1].m = "ret"
            /\ LET eqns == equations_of(results[1][1].val)
               IN [i \in DOMAIN eqns |-> eqns[i].op] = RuleOps(f)
  /\ (Cell1 = StagedJvp(foo) /\ Finished(1))
       => JaxprView(results[1][1].val) =
            [parameters |-> <<VarNo(1)>>,
             equations |->
               <<Equation(VarNo(2), "add", <<VarNo(1), Float(3)>>),
                 Equation(VarNo(3), "add", <<Float(1), Float(0)>>),
                 Equation(VarNo(4), "mul", <<VarNo(1), VarNo(2)>>),
                 Equation(VarNo(5), "mul", <<VarNo(1), VarNo(3)>>),
                 Equation(VarNo(6), "mul", <<Float(1), VarNo(2)>>),
                 Equation(VarNo(7), "add", <<VarNo(5), VarNo(6)>>)>>,
             return_val |-> Tuple2(VarNo(4), VarNo(7))]

\* C28: when the rule of a JVPInterpreter runs with a StagingInterpreter as
\* its prev_interpreter, an add leaves two equations at the end of the list
\* (add of the primals, then add of the tangents) and a mul four (mul of the
\* primals, mul of x.primal and y.tangent, mul of x.tangent and y.primal,
\* then add of the last two results), under consecutive names; the graph of
\* build_jaxpr(lambda x: jvp(f, x, 1.0), 1) holds exactly these equations,
\* in the order of f's calls.
C28_StagedRules ==
  [][/\ \A t \in Tasks :
          (RuleReturns(t) /\ interps[current_interpreter].kind = "staging")
            => LET fr == Top(t)
                   rs == fr.results
                   S == interps[current_interpreter]
                   c == S.name_counter
               IN /\ fr.op = "add" =>
                       /\ Len(S.equations) >= 2
                       /\ LastEquations(S.equations, 2) =
                            <<Equation(VarNo(c - 1), "add", <<fr.x.primal, fr.y.primal>>),
                              Equation(VarNo(c), "add", <<fr.x.tangent, fr.y.tangent>>)>>
                       /\ ctl'[t].val = TaggedDualNumber(fr.self, VarNo(c - 1), VarNo(c))
                  /\ fr.op = "mul" =>
                       /\ Len(S.equations) >= 4
                       /\ LastEquations(S.equations, 4) =
                            <<Equation(VarNo(c - 3), "mul", <<fr.x.primal, fr.y.primal>>),
                              Equation(VarNo(c - 2), "mul", <<fr.x.primal, fr.y.tangent>>),
                              Equation(VarNo(c - 1), "mul", <<fr.x.tangent, fr.y.primal>>),
                              Equation(VarNo(c), "add", <<VarNo(c - 2), VarNo(c - 1)>>)>>
                       /\ ctl'[t].val = TaggedDualNumber(fr.self, VarNo(c - 3), VarNo(c))
     /\ C28_Graphs']_vars

\* inside build_jaxpr(lambda x: jvp(foo, x, 1.0), 1) the rule for mul has its
\* four results v_4 .. v_7 and the list holds six equations
C28_Witness ==
  /\ Cell1 = StagedJvp(foo)
  /\ RuleAt(1, "mul", "ret")
  /\ interps[current_interpreter].kind = "staging"
  /\ Top(1).results = <<VarNo(4), VarNo(5), VarNo(6)>>
  /\ ctl[1].val = VarNo(7)
  /\ Len(interps[current_interpreter].equations) = 6

-----------------------------------------------------------------------------
(* Re-staging *)

\* the first cell re-stages a graph g of f and the second cell builds g again
Restaged ==
  /\ Len(program[1]) = 2
  /\ Cell1.e = "let"
  /\ Cell1.body.e = "build_jaxpr"
  /\ Cell1.body.body.e = "eval_jaxpr"
  /\ Finished(2)

\* C29: for g = build_jaxpr(f, n), f composed of add and mul over its
\* arguments and literals, build_jaxpr(lambda *xs: eval_jaxpr(g, xs), n)
\* returns a graph with the parameters, the equations (result names,
\* operations and arguments, in order) and the return value of g: the view
\* of a second build_jaxpr(f, n), and the equations of g's own list, the
\* first StagingInterpreter's.
C29_RestageIdentity ==
  Restaged =>
    /\ results[1][1].m = "ret"
    /\ results[1][2].m = "ret"
    /\ JaxprView(results[1][1].val) = JaxprView(results[1][2].val)
    /\ results[1][1].val.equations # results[1][2].val.equations
    /\ LET g == CHOOSE i \in StagingIds : \A j \in StagingIds : i <= j
       IN /\ results[1][1].val.equations # g
          /\ equations_of(results[1][1].val) = interps[g].equations

\* foo re-staged: v_1 -> v_2 = add(v_1, 3.0); v_3 = mul(v_1, v_2); v_3 again
C29_Witness ==
  /\ program[1] = Restage(foo)
  /\ Restaged
  /\ JaxprView(results[1][1].val) = FooJaxpr

-----------------------------------------------------------------------------
(* Dual numbers do not nest within one interpreter *)

Range(f) == { f[x] : x \in DOMAIN f }

\* the values a task holds: the one being returned, the arguments of a call,
\* the variables of the expression being evaluated, and the arguments and
\* results held by the running rules
ValuesHeld(t) ==
  (IF ctl[t].m = "ret" THEN {ctl[t].val}
   ELSE IF ctl[t].m = "call" THEN Range(ctl[t].args)
   ELSE IF ctl[t].m = "eval" THEN Range(ctl[t].env)
   ELSE {})
  \cup UNION { IF stack[t][n].f = "jvp_rule"
               THEN {stack[t][n].x, stack[t][n].y} \cup Range(stack[t][n].results)
               ELSE {} : n \in DOMAIN stack[t] }

\* no dual number inside v holds, as primal or tangent, a dual number of its
\* own interpreter
RECURSIVE NoSelfNesting(_)
NoSelfNesting(v) ==
  CASE v.k = "dual" ->
         /\ ~ OwnDual(v.interpreter, v.primal)
         /\ ~ OwnDual(v.interpreter, v.tangent)
         /\ NoSelfNesting(v.primal)
         /\ NoSelfNesting(v.tangent)
    [] v.k = "tuple" -> NoSelfNesting(v.fst) /\ NoSelfNesting(v.snd)
    [] OTHER -> TRUE

\* jvp returns its pair in this step
JvpReturns(t) ==
  /\ OnFrame(t, "ret", "jvp")
  /\ stack'[t] = Tail(stack[t])
  /\ ctl'[t].m = "ret"

C30_Values == \A t \in Tasks : \A v \in ValuesHeld(t) : NoSelfNesting(v)

\* C30: the primal and the tangent of a TaggedDualNumber owned by a
\* JVPInterpreter are never dual numbers owned by that same interpreter, and
\* neither component of the pair that jvp returns is a dual number owned by
\* the interpreter this jvp call created.
C30_NoSelfNesting ==
  [][/\ \A t \in Tasks :
          JvpReturns(t) =>
            /\ ctl'[t].val.k = "tuple"
            /\ ~ OwnDual(Top(t).jvp_interpreter, ctl'[t].val.fst)
            /\ ~ OwnDual(Top(t).jvp_interpreter, ctl'[t].val.snd)
     /\ C30_Values']_vars

\* the inner jvp of a nested differentiation has returned: its pair holds a
\* dual number of the outer interpreter, none of its own
C30_Witness ==
  /\ OnFrame(1, "ret", "derivative")
  /\ Len(interps) = 3
  /\ ctl[1].val.k = "tuple"
  /\ OwnDual(2, ctl[1].val.fst)
  /\ interps[3] = JVPInterpreter(2)

====
